---- MODULE Spec2Model ----
(***************************************************************************)
(* Incident lifecycle engine of the status page: one run of                *)
(* process_incidents (atlassian_statuspage/incident_manager.py) against    *)
(* StatuspageClient (atlassian_statuspage/client.py).                      *)
(*                                                                         *)
(* A run walks the component mapping in order.  Every client method that   *)
(* is entered is appended to `calls`; a remote request may succeed or      *)
(* raise StatuspageError.  A call whose keywords the client method does    *)
(* not accept raises TypeError before the method is entered; nothing in    *)
(* process_incidents catches it, so the run ends in pc = "crashed".        *)
(***************************************************************************)
EXTENDS Integers, Sequences, FiniteSets, TLC

VARIABLES
    pc,                     \* "start" | "loop" | "done" | "crashed"
    idx,                    \* position of the for-loop in the mapping (0 before it)
    component_mapping,      \* sequence of [job, name, component_id] (dict order)
    status_report,          \* display name -> status, "ABSENT" when not in the report
    auto_incidents,
    auto_postmortem,
    notify_subscribers,
    quiet_period_minutes,
    unresolved,             \* list returned by list_unresolved_incidents
    result,                 \* [created, updated, resolved, suppressed, errors]
    calls,                  \* client methods entered, in order
    \* reconcile.py: one pass of reconcile_grafana or of reconcile_statuspage
    r_pc,                   \* position in the pass, "idle" when none is running
    pass,                   \* number of the pass (1 is the first)
    endpoints,              \* config["endpoints"]: job label -> endpoint dict
    ALLOW_DELETIONS,        \* the environment variable, "MISSING" when unset
    remote_checks,          \* remote Grafana checks, by job
    existing_by_job,        \* the checks as list_checks returned them
    remote_components,      \* remote Statuspage components: set of [id, name]
    remote_metrics,         \* remote Statuspage metrics: set of [id, name]
    existing_components,    \* what list_components returned
    existing_metrics,       \* what list_metrics returned ({} when it failed)
    existing_mapping,       \* the Mapping the pass was given
    reconciled_mapping,     \* the pass's own component_mapping (returned)
    todo,                   \* jobs the running for-loop has not visited yet
    r_result,               \* [created, updated, deleted, errors, warnings]
    r_calls,                \* remote client methods called by the pass, in order
    prior_failure,          \* a remote call of an earlier pass failed
    statuspage_json,        \* the document in config/statuspage.json
    \* monitoring/status_engine.py: the classifier applied to a list of inputs
    cl_pc,                  \* "idle" | "classify" | "aggregate" | "done"
    cl_thresholds,          \* the Thresholds the classifier is given
    cl_inputs,              \* list of [reachability, latency]
    cl_statuses,            \* determine_component_status of the inputs so far
    cl_overall,             \* determine_overall_status of cl_statuses, "" before
    \* monitor.py: runs of main
    m_pc,                   \* "idle" | "fetch" | "build" | "compare" | "done"
    m_run,                  \* number of the run (1 is the first)
    m_checks,               \* config.checks: list of check dicts
    m_thresholds,           \* config.thresholds
    m_metrics,              \* job_label -> [reachability, latency]
    m_report,               \* list holding the report of this run, once built
    m_existing,             \* list holding what load_existing_status returned
    m_changed,              \* what has_status_changed returned, as a list
    status_json,            \* list holding the stored report, <<>> when no file
    \* atlassian_statuspage/sync.py: one run of main
    sync_pc,                \* "idle" | "sync" | "automation" | "exited"
    sync_idx,               \* position of the sync loop in the mapping
    sync_updated,           \* `updated`: names whose component status was pushed
    sync_failed,            \* `failed`: names whose update_component_status raised
    exit_code,              \* what main returned, or the status of a crashed run
    \* process_incidents run again and again against the remote incidents
    e_run,                  \* number of the run (1 is the first)
    e_clock,                \* datetime.now of the run, in minutes
    e_remote,               \* the incidents of the page, newest first
    e_reliable,             \* no remote call of the behaviour fails
    e_prev,                 \* component -> [status, escalated] of the run before
    \* the declarative source
    cfg_incidents           \* config["incidents"], a dict

incident_vars == <<pc, idx, component_mapping, status_report, auto_incidents,
                   auto_postmortem, notify_subscribers, quiet_period_minutes,
                   unresolved, result, calls>>

reconcile_vars == <<r_pc, pass, endpoints, ALLOW_DELETIONS, remote_checks,
                    existing_by_job, remote_components, remote_metrics,
                    existing_components,
                    existing_metrics, existing_mapping, reconciled_mapping,
                    todo, r_result, r_calls, prior_failure, statuspage_json>>

classify_vars == <<cl_pc, cl_thresholds, cl_inputs, cl_statuses, cl_overall>>

monitor_vars == <<m_pc, m_run, m_checks, m_thresholds, m_metrics, m_report,
                  m_existing, m_changed, status_json>>

sync_vars == <<sync_pc, sync_idx, sync_updated, sync_failed, exit_code>>

engine_vars == <<e_run, e_clock, e_remote, e_reliable, e_prev>>

settings_vars == <<cfg_incidents>>

\* everything process_incidents has no hand in
outside_incidents ==
    <<reconcile_vars, classify_vars, monitor_vars, sync_vars, engine_vars,
      settings_vars>>

vars == <<incident_vars, reconcile_vars, classify_vars, monitor_vars, sync_vars,
          engine_vars, settings_vars>>

inputs == <<component_mapping, status_report, auto_incidents, auto_postmortem,
            notify_subscribers, quiet_period_minutes>>

----------------------------------------------------------------------------
(* Bounds *)

MaxTime == 1        \* clock values are 0..MaxTime minutes; the run happens at MaxTime
MaxQuiet == 1       \* quiet_period_minutes ranges over 0..MaxQuiet

----------------------------------------------------------------------------
(* Input domains *)

MISSING == "MISSING"            \* a key that the dict does not have
ABSENT == "ABSENT"              \* no entry of that name in the status report

ReportStatuses ==
    {"operational", "degraded_performance", "major_outage", "partial_outage"}

Mappings ==
    { << [job |-> "api", name |-> "API", component_id |-> a],
         [job |-> "web", name |-> "Web", component_id |-> "c2"] >> :
      a \in {"", "c1"} }

Reports == [{"API", "Web"} -> ReportStatuses \cup {ABSENT}]

Timestamps ==
    { [kind |-> "missing", t |-> 0],
      [kind |-> "nonstring", t |-> 0],
      [kind |-> "malformed", t |-> 0] }
    \cup { [kind |-> "ts", t |-> t] : t \in 0..MaxTime }

UpdateLists ==
    { [key |-> FALSE, list |-> <<>>], [key |-> TRUE, list |-> <<>>] }
    \cup { [key |-> TRUE, list |-> << [created_at |-> ts] >>] : ts \in Timestamps }

Incidents ==
    [ id : {"inc1"},
      impact : {"minor", "critical", MISSING},
      components : {{"c1"}, {"c2"}, {"c1", "c2"}},
      incident_updates : UpdateLists ]

UnresolvedLists == {<<>>} \cup { <<inc>> : inc \in Incidents }

----------------------------------------------------------------------------
(* incident_manager.py: tables and pure helpers *)

COMPONENT_STATUS_MAP(status) ==
    IF status \in {"operational", "degraded_performance", "major_outage"}
    THEN status
    ELSE "major_outage"

STATUS_TO_IMPACT_flat(status) == "minor"

STATUS_TO_IMPACT(status) ==
    CASE status = "degraded_performance" -> "minor"
      [] status = "major_outage" -> "critical"
      [] OTHER -> "minor"

STATUS_DISPLAY(status) ==
    CASE status = "degraded_performance" -> "degraded performance"
      [] status = "major_outage" -> "a major outage"
      [] OTHER -> "issues"

find_open_incident_for_component_blind(unresolved_incidents, component_id) == 0

\* index of the first unresolved incident affecting component_id, 0 for None
find_open_incident_for_component(unresolved_incidents, component_id) ==
    LET hits == { k \in 1..Len(unresolved_incidents) :
                    component_id \in unresolved_incidents[k].components }
    IN IF hits = {} THEN 0
       ELSE CHOOSE k \in hits : \A m \in hits : k <= m

generate_incident_name(component_name, status) ==
    [component |-> component_name, description |-> STATUS_DISPLAY(status)]

generate_incident_body(component_name, status) ==
    [template |-> CASE status = "major_outage" -> "incident:major_outage"
                    [] status = "degraded_performance" -> "incident:degraded_performance"
                    [] OTHER -> "incident:other",
     component |-> component_name]

generate_update_body(component_name, status, escalated) ==
    [template |-> CASE escalated -> "update:escalated"
                    [] status = "major_outage" -> "update:major_outage"
                    [] status = "degraded_performance" -> "update:degraded_performance"
                    [] OTHER -> "update:other",
     component |-> component_name]

generate_heartbeat_body(component_name, status) ==
    [template |-> CASE status = "major_outage" -> "heartbeat:major_outage"
                    [] status = "degraded_performance" -> "heartbeat:degraded_performance"
                    [] OTHER -> "heartbeat:other",
     component |-> component_name]

generate_resolve_body(component_name) ==
    [template |-> "resolve", component |-> component_name]

\* the postmortem embeds the component name and the record it was built from
generate_postmortem(source, component_name) ==
    [template |-> "postmortem:" \o source, component |-> component_name]

NoTime == [some |-> FALSE, t |-> 0]

\* None unless the first update carries a parseable ISO timestamp
get_last_update_time(incident) ==
    LET updates == IF incident.incident_updates.key
                   THEN incident.incident_updates.list
                   ELSE <<>>
    IN IF updates = <<>> THEN NoTime
       ELSE LET created_at == updates[1].created_at
            IN IF created_at.kind \in {"missing", "nonstring"} THEN NoTime
               ELSE IF created_at.kind = "malformed" THEN NoTime
               ELSE [some |-> TRUE, t |-> created_at.t]

\* datetime.now(timezone.utc), in minutes
Now == MaxTime

----------------------------------------------------------------------------
(* client.py: StatuspageClient *)

VALID_INCIDENT_STATUSES == {"investigating", "identified", "monitoring", "resolved"}

VALID_IMPACTS == {"none", "minor", "major", "critical"}

\* parameter names of the client methods (self left out)
create_incident_params ==
    {"name", "status", "body", "component_ids", "components",
     "deliver_notifications", "impact_override"}

update_incident_params ==
    {"incident_id", "status", "body", "component_ids", "components",
     "deliver_notifications"}

resolve_incident_params ==
    {"incident_id", "body", "components", "deliver_notifications"}

\* Python binds a keyword call only when every keyword names a parameter;
\* otherwise the call raises TypeError and the method body never runs
Binds(params, keywords) == keywords \subseteq params

\* outcomes of a client method that was entered: TRUE when the request
\* succeeded, FALSE when StatuspageError was raised.  Arguments the method
\* rejects itself raise StatuspageError before any request is made.
create_incident(status, impact_override) ==
    IF status \notin VALID_INCIDENT_STATUSES THEN {FALSE}
    ELSE IF impact_override # "" /\ impact_override \notin VALID_IMPACTS THEN {FALSE}
    ELSE BOOLEAN

update_incident(status) ==
    IF status # "" /\ status \notin VALID_INCIDENT_STATUSES THEN {FALSE}
    ELSE BOOLEAN

resolve_incident == update_incident("resolved")

create_postmortem == BOOLEAN

\* list_incidents raises, or returns a list that holds the incident or not
list_incidents == {"fails", "found", "not_found"}

----------------------------------------------------------------------------
(* Records *)

NoBody == [template |-> "", component |-> ""]
NoName == [component |-> "", description |-> ""]
NoComponents == [id |-> "", status |-> ""]

\* a client method entered by the iteration at position `by`; `ok` is FALSE
\* when it raised StatuspageError
Call(op, by, incident_id, status, components, impact, name, body, notify, ok) ==
    [op |-> op, by |-> by, incident_id |-> incident_id, status |-> status,
     components |-> components, impact |-> impact, name |-> name,
     body |-> body, notify |-> notify, ok |-> ok, response |-> ""]

\* list_incidents takes no argument; `response` is what came back
ListCall(by, fetch) ==
    [op |-> "list_incidents", by |-> by, incident_id |-> "", status |-> "",
     components |-> NoComponents, impact |-> "", name |-> NoName,
     body |-> NoBody, notify |-> FALSE, ok |-> fetch # "fails",
     response |-> fetch]

EmptyResult ==
    [created |-> <<>>, updated |-> <<>>, resolved |-> <<>>,
     suppressed |-> <<>>, errors |-> <<>>]

Add(res, field, entry) == [res EXCEPT ![field] = Append(@, entry)]

Error(kind, ref) == [kind |-> kind, ref |-> ref]

----------------------------------------------------------------------------
(* process_incidents: what the loop reads for the component at position i *)

Cid(i) == component_mapping[i].component_id
Name(i) == component_mapping[i].name
CompData(i) == status_report[Name(i)]
HasData(i) == Cid(i) # "" /\ CompData(i) # ABSENT
CurrentStatus(i) == COMPONENT_STATUS_MAP(CompData(i))
IsHealthy(i) == CurrentStatus(i) = "operational"
OpenIncident(i) == find_open_incident_for_component(unresolved, Cid(i))
NewImpact(i) == STATUS_TO_IMPACT(CurrentStatus(i))
OldImpact(i) ==
    LET inc == unresolved[OpenIncident(i)]
    IN IF inc.impact = MISSING THEN "minor" ELSE inc.impact

ImpactEscalated(new_impact, old_impact) == new_impact # old_impact

WithinQuietPeriod_off_by_one(elapsed, quiet) == elapsed + 1 < quiet

WithinQuietPeriod(elapsed, quiet) == elapsed < quiet

\* lines 273-287: the debounce of a non-escalated update
Suppresses(i) ==
    /\ ~ImpactEscalated(NewImpact(i), OldImpact(i))
    /\ quiet_period_minutes > 0
    /\ LET last_update_time == get_last_update_time(unresolved[OpenIncident(i)])
       IN /\ last_update_time.some
          /\ WithinQuietPeriod(Now - last_update_time.t, quiet_period_minutes)

InLoop == pc = "loop" /\ idx <= Len(component_mapping)

\* no reconciliation pass is running
EmptyReconcileResult ==
    [created |-> <<>>, updated |-> <<>>, deleted |-> <<>>, errors |-> <<>>,
     warnings |-> <<>>]

ReconcileIdle ==
    /\ r_pc = "idle"
    /\ pass = 1
    /\ endpoints = <<>>
    /\ ALLOW_DELETIONS = MISSING
    /\ remote_checks = <<>>
    /\ existing_by_job = <<>>
    /\ remote_components = {}
    /\ remote_metrics = {}
    /\ existing_components = {}
    /\ existing_metrics = {}
    /\ existing_mapping = <<>>
    /\ reconciled_mapping = <<>>
    /\ todo = {}
    /\ r_result = EmptyReconcileResult
    /\ r_calls = <<>>
    /\ prior_failure = FALSE
    /\ statuspage_json = <<>>

\* the classifier is not being exercised
ClassifyIdle ==
    /\ cl_pc = "idle"
    /\ cl_thresholds = <<>>
    /\ cl_inputs = <<>>
    /\ cl_statuses = <<>>
    /\ cl_overall = ""

\* no monitor run
MonitorIdle ==
    /\ m_pc = "idle"
    /\ m_run = 1
    /\ m_checks = <<>>
    /\ m_thresholds = <<>>
    /\ m_metrics = <<>>
    /\ m_report = <<>>
    /\ m_existing = <<>>
    /\ m_changed = <<>>
    /\ status_json = <<>>

\* process_incidents called on its own, not from sync main
SyncIdle ==
    /\ sync_pc = "idle"
    /\ sync_idx = 0
    /\ sync_updated = <<>>
    /\ sync_failed = <<>>
    /\ exit_code = 0

\* the declarative source has no incidents section
SettingsIdle == cfg_incidents = <<>>

\* process_incidents is run once, on a list of incidents of any content
EngineIdle ==
    /\ e_run = 1
    /\ e_clock = 0
    /\ e_remote = <<>>
    /\ e_reliable = FALSE
    /\ e_prev = <<>>

----------------------------------------------------------------------------
(* process_incidents: entry *)

Init ==
    /\ pc = "start"
    /\ idx = 0
    /\ component_mapping \in Mappings
    /\ status_report \in Reports
    /\ auto_incidents \in BOOLEAN
    /\ auto_postmortem \in BOOLEAN
    /\ notify_subscribers \in BOOLEAN
    /\ quiet_period_minutes \in 0..MaxQuiet
    /\ unresolved = <<>>
    /\ result = EmptyResult
    /\ calls = <<>>
    /\ ReconcileIdle
    /\ ClassifyIdle
    /\ MonitorIdle
    /\ EngineIdle
    /\ SettingsIdle
    /\ SyncIdle

\* lines 202-204: automation switched off, return the empty result
Disabled ==
    /\ pc = "start"
    /\ ~auto_incidents
    /\ pc' = "done"
    /\ UNCHANGED <<idx, inputs, unresolved, result, calls>>
    /\ UNCHANGED outside_incidents

FetchFails_without_return ==
    /\ pc = "start"
    /\ auto_incidents
    /\ pc' = "loop"
    /\ idx' = 1
    /\ result' = Add(result, "errors", Error("fetch_unresolved", ""))
    /\ UNCHANGED <<inputs, unresolved, calls>>
    /\ UNCHANGED outside_incidents

\* lines 206-211: list_unresolved_incidents raises, one error, return
FetchFails ==
    /\ pc = "start"
    /\ auto_incidents
    /\ pc' = "done"
    /\ result' = Add(result, "errors", Error("fetch_unresolved", ""))
    /\ UNCHANGED <<idx, inputs, unresolved, calls>>
    /\ UNCHANGED outside_incidents

\* lines 206-217: the list is fetched once, then the loop starts
FetchOk ==
    /\ pc = "start"
    /\ auto_incidents
    /\ \E list \in UnresolvedLists : unresolved' = list
    /\ pc' = "loop"
    /\ idx' = 1
    /\ UNCHANGED <<inputs, result, calls>>
    /\ UNCHANGED outside_incidents

----------------------------------------------------------------------------
(* process_incidents: one iteration of the loop over the mapping *)

\* lines 223-229: no component id, or no status data of that name
SkipComponent ==
    /\ InLoop
    /\ ~HasData(idx)
    /\ idx' = idx + 1
    /\ UNCHANGED <<pc, inputs, unresolved, result, calls>>
    /\ UNCHANGED outside_incidents

NoAction_records_update ==
    /\ InLoop
    /\ HasData(idx)
    /\ IsHealthy(idx)
    /\ OpenIncident(idx) = 0
    /\ idx' = idx + 1
    /\ result' = Add(result, "updated",
                     [component |-> Name(idx), incident_id |-> "",
                      status |-> CurrentStatus(idx)])
    /\ UNCHANGED <<pc, inputs, unresolved, calls>>
    /\ UNCHANGED outside_incidents

\* healthy and no open incident: none of the three branches is taken
NoAction ==
    /\ InLoop
    /\ HasData(idx)
    /\ IsHealthy(idx)
    /\ OpenIncident(idx) = 0
    /\ idx' = idx + 1
    /\ UNCHANGED <<pc, inputs, unresolved, result, calls>>
    /\ UNCHANGED outside_incidents

create_keywords ==
    {"name", "status", "body", "component_ids", "components",
     "deliver_notifications", "impact_override"}

CreateIncident_retrying ==
    /\ InLoop
    /\ HasData(idx)
    /\ ~IsHealthy(idx)
    /\ OpenIncident(idx) = 0
    /\ Len(calls) < 4
    /\ LET current_status == CurrentStatus(idx)
           impact == STATUS_TO_IMPACT(current_status)
       IN \E ok \in create_incident("investigating", impact) :
               /\ calls' = Append(calls,
                     Call("create_incident", idx, "", "investigating",
                          [id |-> Cid(idx), status |-> current_status], impact,
                          generate_incident_name(Name(idx), current_status),
                          generate_incident_body(Name(idx), current_status),
                          notify_subscribers, ok))
               /\ result' =
                     IF ok
                     THEN Add(result, "created",
                              [component |-> Name(idx), incident_id |-> "new-inc",
                               status |-> current_status])
                     ELSE Add(result, "errors", Error("create", Name(idx)))
               /\ idx' = IF ok THEN idx + 1 ELSE idx
               /\ pc' = pc
    /\ UNCHANGED <<inputs, unresolved>>
    /\ UNCHANGED outside_incidents

\* lines 238-265
CreateIncident ==
    /\ InLoop
    /\ HasData(idx)
    /\ ~IsHealthy(idx)
    /\ OpenIncident(idx) = 0
    /\ LET current_status == CurrentStatus(idx)
           impact == STATUS_TO_IMPACT(current_status)
       IN IF ~Binds(create_incident_params, create_keywords)
          THEN /\ pc' = "crashed"
               /\ UNCHANGED <<idx, result, calls>>
          ELSE \E ok \in create_incident("investigating", impact) :
               /\ calls' = Append(calls,
                     Call("create_incident", idx, "", "investigating",
                          [id |-> Cid(idx), status |-> current_status], impact,
                          generate_incident_name(Name(idx), current_status),
                          generate_incident_body(Name(idx), current_status),
                          notify_subscribers, ok))
               /\ result' =
                     IF ok
                     THEN Add(result, "created",
                              [component |-> Name(idx), incident_id |-> "new-inc",
                               status |-> current_status])
                     ELSE Add(result, "errors", Error("create", Name(idx)))
               /\ idx' = idx + 1
               /\ pc' = pc
    /\ UNCHANGED <<inputs, unresolved>>
    /\ UNCHANGED outside_incidents

\* lines 267-287: an open incident of unchanged impact inside the quiet period
SuppressUpdate ==
    /\ InLoop
    /\ HasData(idx)
    /\ ~IsHealthy(idx)
    /\ OpenIncident(idx) # 0
    /\ Suppresses(idx)
    /\ result' = Add(result, "suppressed",
                     [component |-> Name(idx),
                      incident_id |-> unresolved[OpenIncident(idx)].id])
    /\ idx' = idx + 1
    /\ UNCHANGED <<pc, inputs, unresolved, calls>>
    /\ UNCHANGED outside_incidents

update_keywords ==
    {"incident_id", "status", "body", "components", "deliver_notifications",
     "impact_override", "name"}

\* lines 267-326 past the debounce: escalated update or heartbeat
UpdateIncident ==
    /\ InLoop
    /\ HasData(idx)
    /\ ~IsHealthy(idx)
    /\ OpenIncident(idx) # 0
    /\ ~Suppresses(idx)
    /\ LET current_status == CurrentStatus(idx)
           incident_id == unresolved[OpenIncident(idx)].id
           new_impact == NewImpact(idx)
           impact_escalated == ImpactEscalated(new_impact, OldImpact(idx))
           update_body ==
               IF impact_escalated
               THEN generate_update_body(Name(idx), current_status, TRUE)
               ELSE generate_heartbeat_body(Name(idx), current_status)
       IN IF ~Binds(update_incident_params, update_keywords)
          THEN /\ pc' = "crashed"
               /\ UNCHANGED <<idx, result, calls>>
          ELSE \E ok \in update_incident("identified") :
               /\ calls' = Append(calls,
                     Call("update_incident", idx, incident_id, "identified",
                          [id |-> Cid(idx), status |-> current_status], new_impact,
                          generate_incident_name(Name(idx), current_status),
                          update_body,
                          impact_escalated /\ notify_subscribers, ok))
               /\ result' =
                     IF ok
                     THEN Add(result, "updated",
                              [component |-> Name(idx), incident_id |-> incident_id,
                               status |-> current_status,
                               escalated |-> impact_escalated])
                     ELSE Add(result, "errors", Error("update", incident_id))
               /\ idx' = idx + 1
               /\ pc' = pc
    /\ UNCHANGED <<inputs, unresolved>>
    /\ UNCHANGED outside_incidents

resolve_keywords ==
    {"incident_id", "body", "components", "deliver_notifications"}

postmortem_calls_no_fallback(i, incident_id, fetch, pm_ok) ==
    IF fetch = "found"
    THEN << ListCall(i, fetch),
            Call("create_postmortem", i, incident_id, "", NoComponents, "", NoName,
                 generate_postmortem("full", Name(i)), notify_subscribers, pm_ok) >>
    ELSE << ListCall(i, fetch) >>

\* lines 354-373: the client methods entered inside the postmortem try block.
\* list_incidents raising leaves the block; a list without the incident makes
\* the postmortem fall back to the record of the unresolved list.
postmortem_calls(i, incident_id, fetch, pm_ok) ==
    IF fetch = "fails"
    THEN << ListCall(i, fetch) >>
    ELSE << ListCall(i, fetch),
            Call("create_postmortem", i, incident_id, "", NoComponents, "", NoName,
                 generate_postmortem(IF fetch = "found" THEN "full" ELSE "summary",
                                     Name(i)),
                 notify_subscribers, pm_ok) >>

resolve_calls_postmortem_always(i, incident_id, ok, fetch, pm_ok) ==
    << Call("resolve_incident", i, incident_id, "resolved",
            [id |-> Cid(i), status |-> "operational"], "", NoName,
            generate_resolve_body(Name(i)), notify_subscribers, ok) >>
    \o (IF auto_postmortem
        THEN postmortem_calls(i, incident_id, fetch, pm_ok)
        ELSE <<>>)

\* lines 333-373: the client methods entered in the resolve branch
resolve_calls(i, incident_id, ok, fetch, pm_ok) ==
    << Call("resolve_incident", i, incident_id, "resolved",
            [id |-> Cid(i), status |-> "operational"], "", NoName,
            generate_resolve_body(Name(i)), notify_subscribers, ok) >>
    \o (IF ok /\ auto_postmortem
        THEN postmortem_calls(i, incident_id, fetch, pm_ok)
        ELSE <<>>)

resolve_result_retracting(res, i, incident_id, ok, fetch, pm_ok) ==
    IF ~ok
    THEN Add(res, "errors", Error("resolve", incident_id))
    ELSE IF auto_postmortem /\ (fetch = "fails" \/ ~pm_ok)
         THEN Add(res, "errors", Error("postmortem", incident_id))
         ELSE Add(res, "resolved",
                  [component |-> Name(i), incident_id |-> incident_id])

\* lines 344-351 and 378-386: what the resolve branch records
resolve_result(res, i, incident_id, ok, fetch, pm_ok) ==
    IF ~ok
    THEN Add(res, "errors", Error("resolve", incident_id))
    ELSE LET resolved == Add(res, "resolved",
                             [component |-> Name(i), incident_id |-> incident_id])
         IN IF auto_postmortem /\ (fetch = "fails" \/ ~pm_ok)
            THEN Add(resolved, "errors", Error("postmortem", incident_id))
            ELSE resolved

\* lines 328-386
ResolveIncident ==
    /\ InLoop
    /\ HasData(idx)
    /\ IsHealthy(idx)
    /\ OpenIncident(idx) # 0
    /\ LET incident_id == unresolved[OpenIncident(idx)].id
       IN IF ~Binds(resolve_incident_params, resolve_keywords)
          THEN /\ pc' = "crashed"
               /\ UNCHANGED <<idx, result, calls>>
          ELSE \E ok \in resolve_incident, fetch \in list_incidents,
                  pm_ok \in create_postmortem :
               /\ calls' = calls \o resolve_calls(idx, incident_id, ok, fetch, pm_ok)
               /\ result' = resolve_result(result, idx, incident_id, ok, fetch, pm_ok)
               /\ idx' = idx + 1
               /\ pc' = pc
    /\ UNCHANGED <<inputs, unresolved>>
    /\ UNCHANGED outside_incidents

\* line 388
Return ==
    /\ pc = "loop"
    /\ idx > Len(component_mapping)
    /\ pc' = "done"
    /\ UNCHANGED <<idx, inputs, unresolved, result, calls>>
    /\ UNCHANGED outside_incidents

Next ==
    \/ Disabled
    \/ FetchFails
    \/ FetchOk
    \/ SkipComponent
    \/ NoAction
    \/ CreateIncident
    \/ SuppressUpdate
    \/ UpdateIncident
    \/ ResolveIncident
    \/ Return

Spec == Init /\ [][Next]_vars

----------------------------------------------------------------------------
(* Vocabulary of the properties *)

Positions == 1..Len(component_mapping)

\* the loop has dealt with position i: it moved past it, or the run died on it
Attempted(i) ==
    \/ pc \in {"loop", "done"} /\ i < idx
    \/ pc = "crashed" /\ i <= idx

\* non-empty component id and an entry in the status report
Mapped(i) ==
    /\ component_mapping[i].component_id # ""
    /\ status_report[component_mapping[i].name] # ABSENT

ReportedStatus(i) == status_report[component_mapping[i].name]

Unhealthy(i) == ReportedStatus(i) \in {"degraded_performance", "major_outage"}

Operational(i) == ReportedStatus(i) = "operational"

\* some fetched unresolved incident affects the component id
HasOpen(i) ==
    \E k \in 1..Len(unresolved) :
        component_mapping[i].component_id \in unresolved[k].components

DerivedImpact(i) ==
    IF ReportedStatus(i) = "degraded_performance" THEN "minor" ELSE "critical"

CallsOf(i, op) == SelectSeq(calls, LAMBDA c : c.by = i /\ c.op = op)

MutatingCallsOf(i) ==
    SelectSeq(calls, LAMBDA c :
        /\ c.by = i
        /\ c.op \in {"create_incident", "update_incident", "resolve_incident",
                     "create_postmortem"})

EntriesOf(list, i) ==
    SelectSeq(list, LAMBDA e : e.component = component_mapping[i].name)

ErrorsOf(kind, ref) ==
    SelectSeq(result.errors, LAMBDA e : e.kind = kind /\ e.ref = ref)

----------------------------------------------------------------------------
(* Properties *)

\* C1: every mapped component that is degraded_performance or major_outage and
\* that no fetched unresolved incident affects gets exactly one create_incident
\* call: status investigating, impact minor for degraded_performance and
\* critical for major_outage, deliver_notifications = notify_subscribers; a
\* successful call adds exactly one entry to result.created.
C1_CreateForUnhealthyWithoutIncident ==
    \A i \in Positions :
        (Attempted(i) /\ Mapped(i) /\ Unhealthy(i) /\ ~HasOpen(i)) =>
            LET cs == CallsOf(i, "create_incident")
            IN /\ Len(cs) = 1
               /\ cs[1].status = "investigating"
               /\ cs[1].impact = DerivedImpact(i)
               /\ cs[1].components =
                      [id |-> component_mapping[i].component_id,
                       status |-> ReportedStatus(i)]
               /\ cs[1].notify = notify_subscribers
               /\ Len(EntriesOf(result.created, i)) = (IF cs[1].ok THEN 1 ELSE 0)

C1_Witness ==
    /\ pc = "done"
    /\ \E i \in Positions :
        /\ Mapped(i) /\ ReportedStatus(i) = "major_outage" /\ ~HasOpen(i)
        /\ Len(CallsOf(i, "create_incident")) = 1
        /\ CallsOf(i, "create_incident")[1].impact = "critical"
        /\ Len(EntriesOf(result.created, i)) = 1

\* C2: an unhealthy component with an open incident whose stored impact differs
\* from the impact derived from its status gets exactly one update_incident
\* call whatever the quiet period and the age of the last update: status
\* identified, the new impact, the escalated narrative, deliver_notifications =
\* notify_subscribers; result.updated records it with escalated = TRUE and
\* result.suppressed has no entry for it.
C2_EscalationAlwaysUpdates ==
    \A i \in Positions :
        (/\ Attempted(i) /\ Mapped(i) /\ Unhealthy(i) /\ HasOpen(i)
         /\ DerivedImpact(i) # OldImpact(i)) =>
            LET cs == CallsOf(i, "update_incident")
                es == EntriesOf(result.updated, i)
            IN /\ Len(cs) = 1
               /\ cs[1].status = "identified"
               /\ cs[1].impact = DerivedImpact(i)
               /\ cs[1].body.template = "update:escalated"
               /\ cs[1].notify = notify_subscribers
               /\ cs[1].ok => (Len(es) = 1 /\ es[1].escalated)
               /\ EntriesOf(result.suppressed, i) = <<>>

\* the elapsed minutes since the most recent update of the open incident, when
\* that update carries a readable timestamp
LastUpdateKnown(i) == get_last_update_time(unresolved[OpenIncident(i)]).some
Elapsed(i) == Now - get_last_update_time(unresolved[OpenIncident(i)]).t

\* C3: an unhealthy component with an open incident of unchanged impact, a
\* quiet period above zero and a last update younger than the quiet period
\* gets no create, update, resolve or postmortem call, exactly one entry in
\* result.suppressed and none in result.updated.
C3_SuppressedInsideQuietPeriod ==
    \A i \in Positions :
        (/\ Attempted(i) /\ Mapped(i) /\ Unhealthy(i) /\ HasOpen(i)
         /\ DerivedImpact(i) = OldImpact(i)
         /\ quiet_period_minutes > 0
         /\ LastUpdateKnown(i)
         /\ Elapsed(i) < quiet_period_minutes) =>
            /\ MutatingCallsOf(i) = <<>>
            /\ Len(EntriesOf(result.suppressed, i)) = 1
            /\ EntriesOf(result.updated, i) = <<>>

C3_Witness ==
    /\ pc = "done"
    /\ \E i \in Positions :
        /\ Mapped(i) /\ Unhealthy(i) /\ HasOpen(i)
        /\ DerivedImpact(i) = OldImpact(i)
        /\ LastUpdateKnown(i) /\ Elapsed(i) < quiet_period_minutes
        /\ Len(EntriesOf(result.suppressed, i)) = 1
        /\ calls = <<>>

\* C4: an unhealthy component with an open incident of unchanged impact whose
\* last update is at least quiet_period_minutes old gets exactly one
\* update_incident call: the heartbeat narrative, the stored impact,
\* deliver_notifications = FALSE; result.updated records escalated = FALSE.
C4_HeartbeatAfterQuietPeriod ==
    \A i \in Positions :
        (/\ Attempted(i) /\ Mapped(i) /\ Unhealthy(i) /\ HasOpen(i)
         /\ DerivedImpact(i) = OldImpact(i)
         /\ LastUpdateKnown(i)
         /\ Elapsed(i) >= quiet_period_minutes) =>
            LET cs == CallsOf(i, "update_incident")
                es == EntriesOf(result.updated, i)
            IN /\ Len(cs) = 1
               /\ cs[1].body = generate_heartbeat_body(component_mapping[i].name,
                                                       ReportedStatus(i))
               /\ cs[1].impact = OldImpact(i)
               /\ cs[1].notify = FALSE
               /\ cs[1].ok => (Len(es) = 1 /\ ~es[1].escalated)

\* C5: with quiet_period_minutes = 0, or with an open incident that has no
\* readable last update, an unhealthy component with an open incident is
\* never suppressed and gets exactly one update_incident call.
C5_NoSuppressionWithoutQuietPeriodOrUpdate ==
    \A i \in Positions :
        (/\ Attempted(i) /\ Mapped(i) /\ Unhealthy(i) /\ HasOpen(i)
         /\ (quiet_period_minutes = 0 \/ ~LastUpdateKnown(i))) =>
            /\ EntriesOf(result.suppressed, i) = <<>>
            /\ Len(CallsOf(i, "update_incident")) = 1

\* the resolve call of position i went through
ResolveSucceeded(i) ==
    /\ Len(CallsOf(i, "resolve_incident")) = 1
    /\ CallsOf(i, "resolve_incident")[1].ok

\* position in `calls` of the first call that satisfies P, 0 when none does
FirstCall(P(_)) ==
    LET hits == { k \in 1..Len(calls) : P(calls[k]) }
    IN IF hits = {} THEN 0 ELSE CHOOSE k \in hits : \A m \in hits : k <= m

PostmortemFailed(i) ==
    /\ ResolveSucceeded(i)
    /\ Len(CallsOf(i, "create_postmortem")) = 1
    /\ ~CallsOf(i, "create_postmortem")[1].ok

C9_FetchFailureAbortsRun ==
    (ErrorsOf("fetch_unresolved", "") # <<>>) =>
        /\ pc = "done"
        /\ Len(result.errors) = 1
        /\ result.created = <<>>
        /\ result.updated = <<>>
        /\ result.resolved = <<>>
        /\ result.suppressed = <<>>
        /\ calls = <<>>
        /\ \A i \in Positions : ~Attempted(i)

C9_Witness ==
    /\ pc = "done"
    /\ ErrorsOf("fetch_unresolved", "") # <<>>
    /\ \E i \in Positions : Mapped(i) /\ Unhealthy(i)
    /\ calls = <<>>

\* the create, update and resolve calls that raised StatuspageError
FailedPrimaryCalls ==
    SelectSeq(calls, LAMBDA c :
        /\ ~c.ok
        /\ c.op \in {"create_incident", "update_incident", "resolve_incident"})

PrimaryErrors ==
    SelectSeq(result.errors, LAMBDA e : e.kind \in {"create", "update", "resolve"})

\* C10: a failing create, update or resolve call of one component is recorded
\* in result.errors and does not stop the loop: once the loop has dealt with a
\* component it moves on to the next one, and the run returns its result.
C10_PerComponentFailuresIsolated ==
    /\ Len(PrimaryErrors) = Len(FailedPrimaryCalls)
    /\ \A i \in Positions : Attempted(i) => i < idx
    /\ pc # "crashed"

\* C11: a mapped component that is operational and that no fetched unresolved
\* incident affects is left alone: no client call is made on its behalf (no
\* create, update, resolve, list or postmortem), it has no entry in created,
\* updated, resolved or suppressed, and no error names it.
C11_NoActionWhenHealthyWithoutIncident ==
    \A i \in Positions :
        (Attempted(i) /\ Mapped(i) /\ Operational(i) /\ ~HasOpen(i)) =>
            /\ SelectSeq(calls, LAMBDA c : c.by = i) = <<>>
            /\ EntriesOf(result.created, i) = <<>>
            /\ EntriesOf(result.updated, i) = <<>>
            /\ EntriesOf(result.resolved, i) = <<>>
            /\ EntriesOf(result.suppressed, i) = <<>>
            /\ SelectSeq(result.errors,
                         LAMBDA e : e.ref = component_mapping[i].name) = <<>>

\* a finished run in which a healthy component without an incident was passed
\* over while the other component's incident was resolved
C11_Witness ==
    /\ pc = "done"
    /\ \E i \in Positions :
           /\ Attempted(i) /\ Mapped(i) /\ Operational(i) /\ ~HasOpen(i)
           /\ \E j \in Positions : j # i /\ CallsOf(j, "resolve_incident") # <<>>

----------------------------------------------------------------------------
(***************************************************************************)
(* Desired-state reconciler (reconcile.py).  reconcile_grafana and         *)
(* reconcile_statuspage share nothing but the configuration and the        *)
(* ALLOW_DELETIONS environment variable, so a behaviour follows one of the *)
(* two functions through consecutive passes: each pass starts from the     *)
(* remote state the previous one left (no external drift) and, for the     *)
(* status page, from the Mapping the previous one returned.  Every remote  *)
(* call may succeed or raise the client's error.  A for-loop over a Python *)
(* set visits its members in an order the program does not control.        *)
(***************************************************************************)

MaxPasses == 2      \* consecutive passes of one function in a behaviour

DefaultFrequency == 60000

\* a Python dict is a function on its keys
EmptyDict == [k \in {} |-> {}]

Get(d, key, default) == IF key \in DOMAIN d THEN d[key] ELSE default

Put(d, key, value) ==
    [k \in DOMAIN d \cup {key} |-> IF k = key THEN value ELSE d[k]]

Del(d, key) == [k \in DOMAIN d \ {key} |-> d[k]]

\* the dicts whose keys are among "api" and "web", with values from the two sets
Dicts(api_values, web_values) ==
    {EmptyDict}
    \cup {[k \in {"api"} |-> a] : a \in api_values}
    \cup {[k \in {"web"} |-> w] : w \in web_values}
    \cup {[k \in {"api", "web"} |-> IF k = "api" THEN a ELSE w] :
             a \in api_values, w \in web_values}

\* str.lower() on the values the environment variable takes here
Lower(s) == IF s \in {"True", "TRUE", "true"} THEN "true" ELSE s

EnvValues == {MISSING, "True", "false"}

allow_deletions_when_set == ALLOW_DELETIONS # MISSING

\* lines 159 and 280
allow_deletions == Lower(IF ALLOW_DELETIONS = MISSING THEN "false"
                         ELSE ALLOW_DELETIONS) = "true"

\* lines 70-82: the document reconcile main saves; its page id and incident
\* settings are copied from the configuration, the Mapping comes from the pass
generate_statuspage_json(mapping) ==
    [component_mapping |-> mapping,
     incidents |->
        [auto_create |-> Get(cfg_incidents, "auto_create", TRUE),
         auto_postmortem |-> Get(cfg_incidents, "auto_postmortem", TRUE),
         notify_subscribers |-> Get(cfg_incidents, "notify_subscribers", TRUE)]]

\* lines 382-383: the Mapping reconcile main loads before a status-page pass
load_existing_mapping == Get(statuspage_json, "component_mapping", EmptyDict)

\* one remote client method called during a pass; `arg` is the id or the
\* display name it was given
RCall(op, key, arg, ok) ==
    [op |-> op, key |-> key, arg |-> arg, ok |-> ok, pass |-> pass]

\* a create call that succeeded; `id` is the id of the object the remote made
RCreated(op, key, arg, id) ==
    [op |-> op, key |-> key, arg |-> arg, ok |-> TRUE, pass |-> pass, id |-> id]

Entry(kind, name) == [kind |-> kind, name |-> name]

SomeCallFailed == \E k \in 1..Len(r_calls) : ~r_calls[k].ok

----------------------------------------------------------------------------
(* reconcile_grafana: inputs *)

\* endpoint.get("probes"): None when the endpoint has no probes key
NoProbes == [none |-> TRUE, ids |-> <<>>]
SomeProbes(ids) == [none |-> FALSE, ids |-> ids]

GrafanaEndpoints_api ==
    {[url |-> ""]}
    \cup {[url |-> "https://a"], [url |-> "https://a", frequency |-> 30000]}
    \cup {[url |-> "https://a", probes |-> p] : p \in {<<1, 2>>, <<2, 1>>}}
    \cup {[url |-> "https://a", frequency |-> 30000, probes |-> p] :
             p \in {<<1, 2>>, <<2, 1>>}}

GrafanaEndpoints_web == {[url |-> "https://w", probes |-> <<1>>]}

RemoteChecks_api ==
    [id : {100}, job : {"api"}, target : {"https://a", "https://old"},
     frequency : {30000, 60000}, probes : {<<1, 2>>, <<1>>}]

RemoteChecks_web ==
    [id : {200}, job : {"web"}, target : {"https://w"}, frequency : {60000},
     probes : {<<1>>}]

\* the probes the client resolves when it is given none (get_default_probe_ids)
DefaultProbeIds == {<<1>>, <<1, 2>>}

\* the id the remote gives a check created for the job
NewCheckId(job) == IF job = "api" THEN 101 ELSE 201

----------------------------------------------------------------------------
(* reconcile_grafana *)

RECURSIVE Insert(_, _)
Insert(x, s) ==
    IF s = <<>> THEN <<x>>
    ELSE IF x <= Head(s) THEN <<x>> \o s
    ELSE <<Head(s)>> \o Insert(x, Tail(s))

\* Python's sorted() on a list of integers
RECURSIVE sorted(_)
sorted(list) == IF list = <<>> THEN <<>> ELSE Insert(Head(list), sorted(Tail(list)))

url(job) == Get(endpoints[job], "url", "")
frequency(job) == Get(endpoints[job], "frequency", DefaultFrequency)
probes(job) ==
    IF "probes" \in DOMAIN endpoints[job]
    THEN SomeProbes(endpoints[job].probes) ELSE NoProbes

\* lines 122-123: the two disjuncts evaluated before the probes are sorted
FieldsDiffer(existing, job) ==
    existing.target # url(job) \/ existing.frequency # frequency(job)

\* line 124 is only evaluated when lines 122-123 are both false; sorted(None)
\* raises TypeError
SortedRaises(existing, job) == ~FieldsDiffer(existing, job) /\ probes(job).none

needs_update(existing, job) ==
    \/ FieldsDiffer(existing, job)
    \/ sorted(existing.probes) # sorted(probes(job).ids)

\* what reconcile_grafana never touches
GrafanaRest ==
    <<incident_vars, classify_vars, monitor_vars, sync_vars, engine_vars,
      settings_vars, endpoints, ALLOW_DELETIONS, remote_components,
      remote_metrics, existing_components, existing_metrics, existing_mapping,
      reconciled_mapping, statuspage_json>>

GrafanaFrame == UNCHANGED <<GrafanaRest, prior_failure>>

\* lines 95-100
ListChecksFails ==
    /\ r_pc = "g_start"
    /\ r_calls' = Append(r_calls, RCall("list_checks", "", "", FALSE))
    /\ r_result' = Add(r_result, "errors", Entry("List checks", ""))
    /\ r_pc' = "g_done"
    /\ UNCHANGED <<pass, remote_checks, existing_by_job, todo>>
    /\ GrafanaFrame

\* lines 95-107
ListChecksOk ==
    /\ r_pc = "g_start"
    /\ r_calls' = Append(r_calls, RCall("list_checks", "", "", TRUE))
    /\ existing_by_job' = remote_checks
    /\ todo' = DOMAIN endpoints
    /\ r_pc' = "g_desired"
    /\ UNCHANGED <<pass, remote_checks, r_result>>
    /\ GrafanaFrame

\* lines 109-113
SkipEndpointWithoutUrl ==
    /\ r_pc = "g_desired"
    /\ \E job \in todo :
          /\ url(job) = ""
          /\ todo' = todo \ {job}
    /\ UNCHANGED <<r_pc, pass, remote_checks, existing_by_job, r_result, r_calls>>
    /\ GrafanaFrame

\* lines 119-125: comparing with an endpoint that has no probes key
CompareRaises ==
    /\ r_pc = "g_desired"
    /\ \E job \in todo :
          /\ url(job) # ""
          /\ job \in DOMAIN existing_by_job
          /\ SortedRaises(existing_by_job[job], job)
    /\ r_pc' = "g_crashed"
    /\ UNCHANGED <<pass, remote_checks, existing_by_job, todo, r_result, r_calls>>
    /\ GrafanaFrame

\* lines 119-143: nothing differs
CheckUpToDate ==
    /\ r_pc = "g_desired"
    /\ \E job \in todo :
          /\ url(job) # ""
          /\ job \in DOMAIN existing_by_job
          /\ ~SortedRaises(existing_by_job[job], job)
          /\ ~needs_update(existing_by_job[job], job)
          /\ todo' = todo \ {job}
    /\ UNCHANGED <<r_pc, pass, remote_checks, existing_by_job, r_result, r_calls>>
    /\ GrafanaFrame

\* what the remote check holds after an accepted create or update
StoredCheck(id, job, stored_probes) ==
    [id |-> id, job |-> job, target |-> url(job), frequency |-> frequency(job),
     probes |-> stored_probes]

StoredProbes(job) ==
    IF probes(job).none THEN DefaultProbeIds ELSE {probes(job).ids}

\* lines 119-141
UpdateCheck ==
    /\ r_pc = "g_desired"
    /\ \E job \in todo :
          /\ url(job) # ""
          /\ job \in DOMAIN existing_by_job
          /\ ~SortedRaises(existing_by_job[job], job)
          /\ needs_update(existing_by_job[job], job)
          /\ \E ok \in BOOLEAN, stored_probes \in StoredProbes(job) :
                /\ r_calls' = Append(r_calls,
                      RCall("update_check", job, existing_by_job[job].id, ok))
                /\ IF ok
                   THEN /\ r_result' = Add(r_result, "updated", job)
                        /\ remote_checks' =
                              Put(remote_checks, job,
                                  StoredCheck(existing_by_job[job].id, job,
                                              stored_probes))
                   ELSE /\ r_result' = Add(r_result, "errors", Entry("Update", job))
                        /\ UNCHANGED remote_checks
          /\ todo' = todo \ {job}
    /\ UNCHANGED <<r_pc, pass, existing_by_job>>
    /\ GrafanaFrame

\* lines 144-157; the client's own check_exists guard finds nothing, the job
\* not being in the inventory just fetched
CreateCheck ==
    /\ r_pc = "g_desired"
    /\ \E job \in todo :
          /\ url(job) # ""
          /\ job \notin DOMAIN existing_by_job
          /\ \E ok \in BOOLEAN, stored_probes \in StoredProbes(job) :
                /\ r_calls' = Append(r_calls, RCall("create_check", job, "", ok))
                /\ IF ok
                   THEN /\ r_result' = Add(r_result, "created", job)
                        /\ remote_checks' =
                              Put(remote_checks, job,
                                  StoredCheck(NewCheckId(job), job, stored_probes))
                   ELSE /\ r_result' = Add(r_result, "errors", Entry("Create", job))
                        /\ UNCHANGED remote_checks
          /\ todo' = todo \ {job}
    /\ UNCHANGED <<r_pc, pass, existing_by_job>>
    /\ GrafanaFrame

\* lines 159-160: the first loop is over, the orphans are computed
GrafanaOrphans ==
    /\ r_pc = "g_desired"
    /\ todo = {}
    /\ todo' = DOMAIN existing_by_job \ DOMAIN endpoints
    /\ r_pc' = "g_orphans"
    /\ UNCHANGED <<pass, remote_checks, existing_by_job, r_result, r_calls>>
    /\ GrafanaFrame

\* lines 162-168
SkipCheckDeletion ==
    /\ r_pc = "g_orphans"
    /\ ~allow_deletions
    /\ \E job \in todo : todo' = todo \ {job}
    /\ UNCHANGED <<r_pc, pass, remote_checks, existing_by_job, r_result, r_calls>>
    /\ GrafanaFrame

\* lines 170-177
DeleteCheck ==
    /\ r_pc = "g_orphans"
    /\ allow_deletions
    /\ \E job \in todo, ok \in BOOLEAN :
          /\ r_calls' = Append(r_calls,
                RCall("delete_check", job, existing_by_job[job].id, ok))
          /\ IF ok
             THEN /\ r_result' = Add(r_result, "deleted", job)
                  /\ remote_checks' = Del(remote_checks, job)
             ELSE /\ r_result' = Add(r_result, "errors", Entry("Delete", job))
                  /\ UNCHANGED remote_checks
          /\ todo' = todo \ {job}
    /\ UNCHANGED <<r_pc, pass, existing_by_job>>
    /\ GrafanaFrame

\* line 179
GrafanaReturn ==
    /\ r_pc = "g_orphans"
    /\ todo = {}
    /\ r_pc' = "g_done"
    /\ UNCHANGED <<pass, remote_checks, existing_by_job, todo, r_result, r_calls>>
    /\ GrafanaFrame

\* reconcile main is run again: same configuration, the remote as it was left
NextGrafanaPass ==
    /\ r_pc = "g_done"
    /\ pass < MaxPasses
    /\ pass' = pass + 1
    /\ r_pc' = "g_start"
    /\ r_result' = EmptyReconcileResult
    /\ r_calls' = <<>>
    /\ prior_failure' = (prior_failure \/ SomeCallFailed)
    /\ existing_by_job' = EmptyDict
    /\ UNCHANGED <<remote_checks, todo, GrafanaRest>>

IncidentsIdle ==
    /\ pc = "idle"
    /\ idx = 0
    /\ component_mapping = <<>>
    /\ status_report = <<>>
    /\ auto_incidents = FALSE
    /\ auto_postmortem = FALSE
    /\ notify_subscribers = FALSE
    /\ quiet_period_minutes = 0
    /\ unresolved = <<>>
    /\ result = EmptyResult
    /\ calls = <<>>

InitGrafana ==
    /\ r_pc = "g_start"
    /\ pass = 1
    /\ endpoints \in Dicts(GrafanaEndpoints_api, GrafanaEndpoints_web)
    /\ ALLOW_DELETIONS \in EnvValues
    /\ remote_checks \in Dicts(RemoteChecks_api, RemoteChecks_web)
    /\ existing_by_job = EmptyDict
    /\ remote_components = {}
    /\ remote_metrics = {}
    /\ existing_components = {}
    /\ existing_metrics = {}
    /\ existing_mapping = EmptyDict
    /\ reconciled_mapping = EmptyDict
    /\ todo = {}
    /\ r_result = EmptyReconcileResult
    /\ r_calls = <<>>
    /\ prior_failure = FALSE
    /\ statuspage_json = generate_statuspage_json(EmptyDict)

----------------------------------------------------------------------------
(* reconcile_statuspage: inputs *)

StatuspageEndpoints_api ==
    {[name |-> "API"], [name |-> "API", metric |-> FALSE],
     [name |-> "API", component |-> FALSE]}

StatuspageEndpoints_web == {[name |-> "Web", metric |-> FALSE]}

MappingEntries_api ==
    [name : {"API"}, component_id : {"", "c1", "c9"}, metric_id : {"", "m1", "m9"}]

MappingEntries_web == [name : {"Web"}, component_id : {"c2"}, metric_id : {""}]

\* f"{name} Latency"
metric_name_of(display_name) == display_name \o " Latency"

\* the API component may be there or not; the Web component is there when the
\* Mapping knows it
RemoteComponents(mapping) ==
    {api \cup (IF "web" \in DOMAIN mapping
               THEN {[id |-> "c2", name |-> "Web"]} ELSE {}) :
        api \in SUBSET {[id |-> "c1", name |-> "API"]}}

RemoteMetrics == SUBSET {[id |-> "m1", name |-> metric_name_of("API")]}

\* ids the remote hands out: the first one that no remote object has and
\* that the Mapping does not hold
NewComponentIds == <<"nc1", "nc2", "nc3", "nc4">>
NewMetricIds == <<"nm1", "nm2", "nm3", "nm4">>

MappingIds(field) == {reconciled_mapping[j][field] : j \in DOMAIN reconciled_mapping}

FirstUnused(ids, used) ==
    ids[CHOOSE k \in 1..Len(ids) :
            /\ ids[k] \notin used
            /\ \A l \in 1..(k - 1) : ids[l] \in used]

NewComponentId ==
    FirstUnused(NewComponentIds,
                {c.id : c \in remote_components} \cup MappingIds("component_id"))

NewMetricId ==
    FirstUnused(NewMetricIds,
                {m.id : m \in remote_metrics} \cup MappingIds("metric_id"))

----------------------------------------------------------------------------
(* reconcile_statuspage *)

\* lines 207-210
desired_jobs ==
    {job \in DOMAIN endpoints : Get(endpoints[job], "component", TRUE)}

existing_comp_ids == {c.id : c \in existing_components}
existing_metric_ids == {m.id : m \in existing_metrics}

endpoint_name(job) == endpoints[job].name
wants_metric(job) == Get(endpoints[job], "metric", TRUE)
metric_name(job) == metric_name_of(endpoint_name(job))

\* lines 219-221
current(job) == Get(reconciled_mapping, job, EmptyDict)
stored_comp_id(job) == Get(current(job), "component_id", "")
stored_metric_id(job) == Get(current(job), "metric_id", "")

\* lines 223-228: a stored id that the fetched inventory lacks is dropped
comp_id_after_validation(job) ==
    IF stored_comp_id(job) # "" /\ stored_comp_id(job) \notin existing_comp_ids
    THEN "" ELSE stored_comp_id(job)

\* lines 230-235
metric_id_after_validation(job) ==
    IF stored_metric_id(job) # "" /\ stored_metric_id(job) \notin existing_metric_ids
    THEN "" ELSE stored_metric_id(job)

\* existing_comp_by_name[name], existing_metric_by_name[metric_name]
ComponentsNamed(display_name) == {c \in existing_components : c.name = display_name}
MetricsNamed(display_name) == {m \in existing_metrics : m.name = display_name}

\* lines 237-254: create_component is needed
MustCreateComponent(job) ==
    /\ comp_id_after_validation(job) = ""
    /\ ComponentsNamed(endpoint_name(job)) = {}

\* lines 237-250: the component id the iteration goes on with, and how it got it
ComponentOutcomes(job) ==
    IF comp_id_after_validation(job) # ""
    THEN {[how |-> "kept", id |-> comp_id_after_validation(job)]}
    ELSE IF ComponentsNamed(endpoint_name(job)) # {}
    THEN {[how |-> "adopted", id |-> c.id] : c \in ComponentsNamed(endpoint_name(job))}
    ELSE {[how |-> "created", id |-> NewComponentId]}

MetricOutcomes_without_adoption(job) ==
    IF ~wants_metric(job) \/ metric_id_after_validation(job) # ""
    THEN {[how |-> "kept", id |-> metric_id_after_validation(job)]}
    ELSE {[how |-> "created", id |-> NewMetricId], [how |-> "failed", id |-> ""]}

\* lines 256-272
MetricOutcomes(job) ==
    IF ~wants_metric(job) \/ metric_id_after_validation(job) # ""
    THEN {[how |-> "kept", id |-> metric_id_after_validation(job)]}
    ELSE IF MetricsNamed(metric_name(job)) # {}
    THEN {[how |-> "adopted", id |-> m.id] : m \in MetricsNamed(metric_name(job))}
    ELSE {[how |-> "created", id |-> NewMetricId], [how |-> "failed", id |-> ""]}

\* lines 274-278
mapping_entry(job, comp_id, metric_id) ==
    [name |-> endpoint_name(job), component_id |-> comp_id,
     metric_id |-> IF wants_metric(job) THEN metric_id ELSE ""]

\* what reconcile_statuspage never touches
StatuspageRest ==
    <<incident_vars, classify_vars, monitor_vars, sync_vars, engine_vars,
      settings_vars, endpoints, ALLOW_DELETIONS, remote_checks, existing_by_job>>

StatuspageFrame == UNCHANGED <<StatuspageRest, prior_failure, statuspage_json>>

SaveReturnedMapping_unless_errors ==
    /\ statuspage_json' = IF r_result'.errors = <<>>
                          THEN generate_statuspage_json(reconciled_mapping)
                          ELSE statuspage_json
    /\ UNCHANGED <<StatuspageRest, prior_failure>>

\* main, lines 385-390: whatever reconcile_statuspage returned is saved
SaveReturnedMapping ==
    /\ statuspage_json' = generate_statuspage_json(reconciled_mapping)
    /\ UNCHANGED <<StatuspageRest, prior_failure>>

ListComponentsFails_and_goes_on ==
    /\ r_pc = "s_start"
    /\ r_calls' = Append(r_calls, RCall("list_components", "", "", FALSE))
    /\ r_result' = Add(r_result, "errors", Entry("List components", ""))
    /\ r_pc' = "s_metrics"
    /\ UNCHANGED <<pass, remote_components, remote_metrics, existing_components,
                   existing_metrics, existing_mapping, reconciled_mapping, todo>>
    /\ StatuspageFrame

\* lines 187-192
ListComponentsFails ==
    /\ r_pc = "s_start"
    /\ r_calls' = Append(r_calls, RCall("list_components", "", "", FALSE))
    /\ r_result' = Add(r_result, "errors", Entry("List components", ""))
    /\ r_pc' = "s_done"
    /\ UNCHANGED <<pass, remote_components, remote_metrics, existing_components,
                   existing_metrics, existing_mapping, reconciled_mapping, todo>>
    /\ SaveReturnedMapping

\* lines 187-195
ListComponentsOk ==
    /\ r_pc = "s_start"
    /\ r_calls' = Append(r_calls, RCall("list_components", "", "", TRUE))
    /\ existing_components' = remote_components
    /\ r_pc' = "s_metrics"
    /\ UNCHANGED <<pass, remote_components, remote_metrics, existing_metrics,
                   existing_mapping, reconciled_mapping, todo, r_result>>
    /\ StatuspageFrame

ListMetricsFails_as_error ==
    /\ r_pc = "s_metrics"
    /\ r_calls' = Append(r_calls, RCall("list_metrics", "", "", FALSE))
    /\ r_result' = Add(r_result, "errors", Entry("List metrics", ""))
    /\ existing_metrics' = {}
    /\ todo' = desired_jobs
    /\ r_pc' = "s_desired"
    /\ UNCHANGED <<pass, remote_components, remote_metrics, existing_components,
                   existing_mapping, reconciled_mapping>>
    /\ StatuspageFrame

\* lines 197-210: the warning, and the metric inventory stays empty
ListMetricsFails ==
    /\ r_pc = "s_metrics"
    /\ r_calls' = Append(r_calls, RCall("list_metrics", "", "", FALSE))
    /\ r_result' = Add(r_result, "warnings", Entry("List metrics", ""))
    /\ existing_metrics' = {}
    /\ todo' = desired_jobs
    /\ r_pc' = "s_desired"
    /\ UNCHANGED <<pass, remote_components, remote_metrics, existing_components,
                   existing_mapping, reconciled_mapping>>
    /\ StatuspageFrame

\* lines 197-210
ListMetricsOk ==
    /\ r_pc = "s_metrics"
    /\ r_calls' = Append(r_calls, RCall("list_metrics", "", "", TRUE))
    /\ existing_metrics' = remote_metrics
    /\ todo' = desired_jobs
    /\ r_pc' = "s_desired"
    /\ UNCHANGED <<pass, remote_components, remote_metrics, existing_components,
                   existing_mapping, reconciled_mapping, r_result>>
    /\ StatuspageFrame

\* lines 212-254: create_component raises, the endpoint is skipped and its
\* Mapping entry is not written
CreateComponentFails ==
    /\ r_pc = "s_desired"
    /\ \E job \in todo :
          /\ MustCreateComponent(job)
          /\ r_calls' = Append(r_calls,
                RCall("create_component", job, endpoint_name(job), FALSE))
          /\ r_result' = Add(r_result, "errors",
                Entry("Create component", endpoint_name(job)))
          /\ todo' = todo \ {job}
    /\ UNCHANGED <<r_pc, pass, remote_components, remote_metrics,
                   existing_components, existing_metrics, existing_mapping,
                   reconciled_mapping>>
    /\ StatuspageFrame

caller_mapping_after_write_shared(written) == written

\* line 185: component_mapping is dict(existing_mapping), an object of its
\* own; lines 274-278 and 314 replace and remove its entries and write into
\* none of them, so the object the caller passed stays as it was
caller_mapping_after_write(written) == existing_mapping

\* the calls one iteration makes, in order
endpoint_calls(job, comp, metric) ==
    (IF comp.how = "created"
     THEN <<RCreated("create_component", job, endpoint_name(job), comp.id)>>
     ELSE <<>>)
    \o (IF metric.how = "created"
        THEN <<RCreated("create_metric", job, metric_name(job), metric.id)>>
        ELSE IF metric.how = "failed"
        THEN <<RCall("create_metric", job, metric_name(job), FALSE)>>
        ELSE <<>>)

\* what one iteration appends to the result
endpoint_result(res, job, comp, metric) ==
    LET with_component ==
            IF comp.how = "created"
            THEN Add(res, "created", Entry("component", endpoint_name(job)))
            ELSE res
    IN IF metric.how = "created"
       THEN Add(with_component, "created", Entry("metric", metric_name(job)))
       ELSE IF metric.how = "failed"
       THEN Add(with_component, "warnings", Entry("Create metric", metric_name(job)))
       ELSE with_component

\* lines 212-278: one desired endpoint whose component is kept, adopted or
\* created; its metric is kept, adopted, created or given up; the entry is
\* written
ReconcileEndpoint ==
    /\ r_pc = "s_desired"
    /\ \E job \in todo :
          /\ \E comp \in ComponentOutcomes(job), metric \in MetricOutcomes(job) :
                /\ r_calls' = r_calls \o endpoint_calls(job, comp, metric)
                /\ r_result' = endpoint_result(r_result, job, comp, metric)
                /\ remote_components' =
                      IF comp.how = "created"
                      THEN remote_components \cup
                              {[id |-> comp.id, name |-> endpoint_name(job)]}
                      ELSE remote_components
                /\ remote_metrics' =
                      IF metric.how = "created"
                      THEN remote_metrics \cup
                              {[id |-> metric.id, name |-> metric_name(job)]}
                      ELSE remote_metrics
                /\ reconciled_mapping' =
                      Put(reconciled_mapping, job,
                          mapping_entry(job, comp.id, metric.id))
          /\ todo' = todo \ {job}
    /\ existing_mapping' = caller_mapping_after_write(reconciled_mapping')
    /\ UNCHANGED <<r_pc, pass, existing_components, existing_metrics>>
    /\ StatuspageFrame

\* lines 280-281
StatuspageOrphans ==
    /\ r_pc = "s_desired"
    /\ todo = {}
    /\ todo' = DOMAIN reconciled_mapping \ desired_jobs
    /\ r_pc' = "s_orphans"
    /\ UNCHANGED <<pass, remote_components, remote_metrics, existing_components,
                   existing_metrics, existing_mapping, reconciled_mapping,
                   r_result, r_calls>>
    /\ StatuspageFrame

\* lines 283-292
SkipOrphanDeletion ==
    /\ r_pc = "s_orphans"
    /\ ~allow_deletions
    /\ \E job \in todo : todo' = todo \ {job}
    /\ UNCHANGED <<r_pc, pass, remote_components, remote_metrics,
                   existing_components, existing_metrics, existing_mapping,
                   reconciled_mapping, r_result, r_calls>>
    /\ StatuspageFrame

orphan_name(job) == Get(reconciled_mapping[job], "name", job)
orphan_metric_id(job) == Get(reconciled_mapping[job], "metric_id", "")
orphan_comp_id(job) == Get(reconciled_mapping[job], "component_id", "")

\* lines 294-301: the outcomes of the metric deletion of an orphan
MetricDeletions(job) ==
    IF orphan_metric_id(job) = "" THEN {"none"} ELSE {"deleted", "failed"}

metric_delete_calls(job, metric_deletion) ==
    IF metric_deletion = "none" THEN <<>>
    ELSE <<RCall("delete_metric", job, orphan_metric_id(job),
                 metric_deletion = "deleted")>>

\* lines 296-301: a failure is logged and leaves nothing in the result
metric_delete_result(res, job, metric_deletion) ==
    IF metric_deletion = "deleted"
    THEN Add(res, "deleted", Entry("metric", orphan_name(job)))
    ELSE res

metrics_after(job, metric_deletion) ==
    IF metric_deletion = "deleted"
    THEN {m \in remote_metrics : m.id # orphan_metric_id(job)}
    ELSE remote_metrics

DeleteOrphanComponentFails_removing_entry ==
    /\ r_pc = "s_orphans"
    /\ allow_deletions
    /\ \E job \in todo :
          /\ orphan_comp_id(job) # ""
          /\ \E metric_deletion \in MetricDeletions(job) :
                /\ r_calls' =
                      r_calls \o metric_delete_calls(job, metric_deletion)
                      \o <<RCall("delete_component", job, orphan_comp_id(job), FALSE)>>
                /\ r_result' =
                      Add(metric_delete_result(r_result, job, metric_deletion),
                          "errors", Entry("Delete component", orphan_name(job)))
                /\ remote_metrics' = metrics_after(job, metric_deletion)
          /\ reconciled_mapping' = Del(reconciled_mapping, job)
          /\ todo' = todo \ {job}
    /\ UNCHANGED <<r_pc, pass, remote_components, existing_components,
                   existing_metrics, existing_mapping>>
    /\ StatuspageFrame

\* lines 283-312: delete_component raises, the entry stays
DeleteOrphanComponentFails ==
    /\ r_pc = "s_orphans"
    /\ allow_deletions
    /\ \E job \in todo :
          /\ orphan_comp_id(job) # ""
          /\ \E metric_deletion \in MetricDeletions(job) :
                /\ r_calls' =
                      r_calls \o metric_delete_calls(job, metric_deletion)
                      \o <<RCall("delete_component", job, orphan_comp_id(job), FALSE)>>
                /\ r_result' =
                      Add(metric_delete_result(r_result, job, metric_deletion),
                          "errors", Entry("Delete component", orphan_name(job)))
                /\ remote_metrics' = metrics_after(job, metric_deletion)
          /\ todo' = todo \ {job}
    /\ UNCHANGED <<r_pc, pass, remote_components, existing_components,
                   existing_metrics, existing_mapping, reconciled_mapping>>
    /\ StatuspageFrame

\* lines 283-314: the component is deleted, or there is none; the entry goes
DeleteOrphan ==
    /\ r_pc = "s_orphans"
    /\ allow_deletions
    /\ \E job \in todo :
          /\ \E metric_deletion \in MetricDeletions(job) :
                /\ r_calls' =
                      r_calls \o metric_delete_calls(job, metric_deletion)
                      \o (IF orphan_comp_id(job) # ""
                          THEN <<RCall("delete_component", job,
                                       orphan_comp_id(job), TRUE)>>
                          ELSE <<>>)
                /\ r_result' =
                      LET res == metric_delete_result(r_result, job, metric_deletion)
                      IN IF orphan_comp_id(job) # ""
                         THEN Add(res, "deleted",
                                  Entry("component", orphan_name(job)))
                         ELSE res
                /\ remote_metrics' = metrics_after(job, metric_deletion)
          /\ remote_components' =
                {c \in remote_components : c.id # orphan_comp_id(job)}
          /\ reconciled_mapping' = Del(reconciled_mapping, job)
          /\ todo' = todo \ {job}
    /\ existing_mapping' = caller_mapping_after_write(reconciled_mapping')
    /\ UNCHANGED <<r_pc, pass, existing_components, existing_metrics>>
    /\ StatuspageFrame

\* line 316
StatuspageReturn ==
    /\ r_pc = "s_orphans"
    /\ todo = {}
    /\ r_pc' = "s_done"
    /\ UNCHANGED <<pass, remote_components, remote_metrics, existing_components,
                   existing_metrics, existing_mapping, reconciled_mapping, todo,
                   r_result, r_calls>>
    /\ SaveReturnedMapping

\* reconcile main is run again with the Mapping the last pass returned (main
\* saves it and the next run loads it), same configuration, remote as left
NextStatuspagePass ==
    /\ r_pc = "s_done"
    /\ pass < MaxPasses
    /\ pass' = pass + 1
    /\ r_pc' = "s_start"
    /\ existing_mapping' = load_existing_mapping
    /\ reconciled_mapping' = load_existing_mapping
    /\ r_result' = EmptyReconcileResult
    /\ r_calls' = <<>>
    /\ prior_failure' = (prior_failure \/ SomeCallFailed)
    /\ existing_components' = {}
    /\ existing_metrics' = {}
    /\ UNCHANGED <<remote_components, remote_metrics, todo, StatuspageRest,
                   statuspage_json>>

InitStatuspage ==
    /\ r_pc = "s_start"
    /\ pass = 1
    /\ endpoints \in Dicts(StatuspageEndpoints_api, StatuspageEndpoints_web)
    /\ ALLOW_DELETIONS \in EnvValues
    /\ remote_checks = EmptyDict
    /\ existing_by_job = EmptyDict
    /\ existing_mapping \in Dicts(MappingEntries_api, MappingEntries_web)
    /\ remote_components \in RemoteComponents(existing_mapping)
    /\ remote_metrics \in RemoteMetrics
    /\ existing_components = {}
    /\ existing_metrics = {}
    /\ reconciled_mapping = existing_mapping
    /\ todo = {}
    /\ r_result = EmptyReconcileResult
    /\ r_calls = <<>>
    /\ prior_failure = FALSE
    /\ statuspage_json = generate_statuspage_json(existing_mapping)

InitReconcile ==
    /\ IncidentsIdle
    /\ ClassifyIdle
    /\ MonitorIdle
    /\ EngineIdle
    /\ SettingsIdle
    /\ SyncIdle
    /\ InitGrafana \/ InitStatuspage

NextReconcile ==
    \/ ListChecksFails
    \/ ListChecksOk
    \/ SkipEndpointWithoutUrl
    \/ CompareRaises
    \/ CheckUpToDate
    \/ UpdateCheck
    \/ CreateCheck
    \/ GrafanaOrphans
    \/ SkipCheckDeletion
    \/ DeleteCheck
    \/ GrafanaReturn
    \/ NextGrafanaPass
    \/ ListComponentsFails
    \/ ListComponentsOk
    \/ ListMetricsFails
    \/ ListMetricsOk
    \/ CreateComponentFails
    \/ ReconcileEndpoint
    \/ StatuspageOrphans
    \/ SkipOrphanDeletion
    \/ DeleteOrphanComponentFails
    \/ DeleteOrphan
    \/ StatuspageReturn
    \/ NextStatuspagePass

SpecReconcile == InitReconcile /\ [][NextReconcile]_vars

----------------------------------------------------------------------------
(* Vocabulary of the reconciliation properties *)

MutatingOps ==
    {"create_check", "update_check", "delete_check", "create_component",
     "create_metric", "delete_component", "delete_metric"}

RCallsOf(ops) == SelectSeq(r_calls, LAMBDA c : c.op \in ops)

RCallsFor(job, op) == SelectSeq(r_calls, LAMBDA c : c.op = op /\ c.key = job)

FailedRCalls(op) == SelectSeq(r_calls, LAMBDA c : c.op = op /\ ~c.ok)

\* the deletion gate as the environment states it
GateSet == ALLOW_DELETIONS \in {"true", "True", "TRUE"}

RemoteComponentIds == {c.id : c \in remote_components}
RemoteMetricIds == {m.id : m \in remote_metrics}

\* the endpoints with the component flag on, and the orphans of the Mapping
\* the pass was given
Desired == {job \in DOMAIN endpoints :
               IF "component" \in DOMAIN endpoints[job]
               THEN endpoints[job].component ELSE TRUE}
Orphans == DOMAIN existing_mapping \ Desired

\* the loop over the desired endpoints of the running status-page pass is over
DesiredLoopOver ==
    /\ r_pc \in {"s_orphans", "s_done"}
    /\ FailedRCalls("list_components") = <<>>

----------------------------------------------------------------------------
(* Properties of the reconciler *)

\* C12: a pass that follows passes in which every remote call succeeded (same
\* configuration, remote state as the previous pass left it, Mapping as the
\* previous pass returned it), and whose own inventory listings succeed, runs
\* to its end without raising, issues no create, update or delete call on
\* either remote system, and its created, updated and deleted lists are empty.
C12_SecondPassIsNoOp ==
    (pass > 1 /\ ~prior_failure /\ ~SomeCallFailed) =>
        /\ r_pc # "g_crashed"
        /\ RCallsOf(MutatingOps) = <<>>
        /\ r_result.created = <<>>
        /\ r_result.updated = <<>>
        /\ r_result.deleted = <<>>

\* C13: when a status-page pass that fetched the component inventory returns,
\* no desired endpoint's Mapping entry holds a component id or a metric id
\* that does not exist remotely.
C13_NoDanglingIdForDesiredEndpoint ==
    (r_pc = "s_done" /\ FailedRCalls("list_components") = <<>>) =>
        \A job \in Desired \cap DOMAIN reconciled_mapping :
            /\ reconciled_mapping[job].component_id \in {""} \cup RemoteComponentIds
            /\ reconciled_mapping[job].metric_id \in {""} \cup RemoteMetricIds

\* C14: unless the deletion gate is set, a pass issues no delete_check,
\* delete_metric or delete_component call, its deleted list is empty, and
\* every orphaned entry of the Mapping it was given is, unchanged, in the
\* Mapping it works on and returns.
C14_NoDeletionUnlessGateSet ==
    ~GateSet =>
        /\ RCallsOf({"delete_check", "delete_metric", "delete_component"}) = <<>>
        /\ r_result.deleted = <<>>
        /\ \A job \in Orphans :
              /\ job \in DOMAIN reconciled_mapping
              /\ reconciled_mapping[job] = existing_mapping[job]

\* both kinds of pass returned with the gate unset ("false") while there was
\* an orphan: a status-page pass with an orphaned entry that holds ids
C14_Witness ==
    /\ ALLOW_DELETIONS = "false"
    /\ r_pc = "s_done"
    /\ FailedRCalls("list_components") = <<>>
    /\ \E job \in Orphans :
          /\ existing_mapping[job].component_id # ""
          /\ existing_mapping[job].component_id \in RemoteComponentIds

NamedIn(objects, display_name) == {o \in objects : o.name = display_name}

UniqueNames(objects) ==
    \A o1, o2 \in objects : o1.name = o2.name => o1 = o2

\* the id the given Mapping stores for the job is in the fetched inventory
StoredIdListed(job, field, listed_ids) ==
    /\ job \in DOMAIN existing_mapping
    /\ existing_mapping[job][field] \in listed_ids

WantsMetric(job) ==
    IF "metric" \in DOMAIN endpoints[job] THEN endpoints[job].metric ELSE TRUE

\* the iteration of the job got past the component step
ComponentStepPassed(job) ==
    \A k \in 1..Len(r_calls) :
        ~(r_calls[k].op = "create_component" /\ r_calls[k].key = job /\ ~r_calls[k].ok)

\* for every desired endpoint without a listed stored id, an object of its
\* name in `components_known` (or `metrics_known`) has its id in the Mapping
AdoptedIdStored(components_known, metrics_known) ==
    DesiredLoopOver =>
        \A job \in Desired :
            /\ ( /\ ~StoredIdListed(job, "component_id", {c.id : c \in existing_components})
                 /\ NamedIn(components_known, endpoints[job].name) # {} )
               => /\ job \in DOMAIN reconciled_mapping
                  /\ reconciled_mapping[job].component_id \in
                        {c.id : c \in NamedIn(components_known, endpoints[job].name)}
            /\ ( /\ WantsMetric(job)
                 /\ ComponentStepPassed(job)
                 /\ ~StoredIdListed(job, "metric_id", {m.id : m \in existing_metrics})
                 /\ NamedIn(metrics_known, endpoints[job].name \o " Latency") # {} )
               => /\ job \in DOMAIN reconciled_mapping
                  /\ reconciled_mapping[job].metric_id \in
                        {m.id : m \in NamedIn(metrics_known,
                                              endpoints[job].name \o " Latency")}

Visited(job) ==
    /\ job \in DOMAIN endpoints
    /\ \/ r_pc \in {"g_orphans", "g_done"}
       \/ r_pc = "g_desired" /\ job \notin todo

ProbeSet(ids) == {ids[k] : k \in 1..Len(ids)}

\* a tracked field of the listed check differs from what the endpoint asks
\* for (an endpoint without a probes key asks for no particular probe set)
TrackedFieldDiffers(job) ==
    LET listed == existing_by_job[job]
        wanted == endpoints[job]
    IN \/ listed.target # wanted.url
       \/ listed.frequency # (IF "frequency" \in DOMAIN wanted
                              THEN wanted.frequency ELSE DefaultFrequency)
       \/ /\ "probes" \in DOMAIN wanted
          /\ ProbeSet(listed.probes) # ProbeSet(wanted.probes)

\* C16: the comparison of a desired endpoint with its listed check never
\* raises, and for every desired endpoint with a url whose job was listed,
\* update_check is called (once) if and only if the target, the frequency or
\* the probe set differs; when nothing differs the job is in neither created
\* nor updated.
C16_UpdateIffTrackedFieldDiffers ==
    /\ r_pc # "g_crashed"
    /\ \A job \in DOMAIN endpoints :
          (Visited(job) /\ endpoints[job].url # "" /\ job \in DOMAIN existing_by_job) =>
              /\ Len(RCallsFor(job, "update_check")) =
                    IF TrackedFieldDiffers(job) THEN 1 ELSE 0
              /\ ~TrackedFieldDiffers(job) =>
                    /\ \A k \in 1..Len(r_result.created) : r_result.created[k] # job
                    /\ \A k \in 1..Len(r_result.updated) : r_result.updated[k] # job

\* C17: when list_checks fails the Grafana pass returns having made no other
\* call, with exactly one error and nothing created, updated or deleted; when
\* list_components fails the status-page pass returns having made no other
\* call, with exactly one error, and the Mapping it returns equals the
\* Mapping it was given.
C17_InventoryFetchFailureEndsThePass ==
    /\ FailedRCalls("list_checks") # <<>> =>
          /\ r_pc = "g_done"
          /\ Len(r_calls) = 1
          /\ Len(r_result.errors) = 1
          /\ r_result.created = <<>> /\ r_result.updated = <<>>
          /\ r_result.deleted = <<>>
    /\ FailedRCalls("list_components") # <<>> =>
          /\ r_pc = "s_done"
          /\ Len(r_calls) = 1
          /\ Len(r_result.errors) = 1
          /\ r_result.created = <<>> /\ r_result.deleted = <<>>
          /\ reconciled_mapping = existing_mapping

\* list_components failed in a pass that had a component to recreate (stale
\* stored id) and, the gate being set, an orphan to delete
C17_Witness ==
    /\ r_pc = "s_done"
    /\ FailedRCalls("list_components") # <<>>
    /\ GateSet
    /\ \E job \in Desired \cap DOMAIN existing_mapping :
          existing_mapping[job].component_id = "c9"
    /\ Orphans # {}

\* C18: when list_metrics fails after list_components succeeded, the failure
\* is one warning and no error, the metric inventory the pass works with is
\* empty, and once the loop over the desired endpoints is over every desired
\* endpoint either has a Mapping entry whose component exists remotely (kept,
\* adopted or created) or had its create_component call fail.
C18_MetricListingFailureIsAWarning ==
    FailedRCalls("list_metrics") # <<>> =>
        /\ Len(SelectSeq(r_result.warnings, LAMBDA w : w.kind = "List metrics")) = 1
        /\ SelectSeq(r_result.errors, LAMBDA e : e.kind = "List metrics") = <<>>
        /\ existing_metrics = {}
        /\ DesiredLoopOver =>
              \A job \in Desired :
                  \/ /\ job \in DOMAIN reconciled_mapping
                     /\ reconciled_mapping[job].name = endpoints[job].name
                     /\ reconciled_mapping[job].component_id \in RemoteComponentIds
                  \/ ~ComponentStepPassed(job)

\* list_metrics failed and the pass still created a component
C18_Witness ==
    /\ r_pc = "s_done"
    /\ FailedRCalls("list_metrics") # <<>>
    /\ \E k \in 1..Len(r_calls) :
          r_calls[k].op = "create_component" /\ r_calls[k].ok

\* C19: for every orphan of the Mapping the pass was given: a delete_metric
\* call for it comes before its delete_component call, and a component delete
\* of an orphan that holds a metric id is preceded by its metric delete; a
\* failed delete_component leaves one error and the entry as it was; the entry
\* is gone from the Mapping only if its delete_component call succeeded or it
\* held no component id.
C19_MetricThenComponentAndEntryKeptOnFailure ==
    \A job \in Orphans :
        /\ \A k, l \in 1..Len(r_calls) :
              ( /\ r_calls[k].op = "delete_component" /\ r_calls[k].key = job
                /\ r_calls[l].op = "delete_metric" /\ r_calls[l].key = job )
              => l < k
        /\ ( RCallsFor(job, "delete_component") # <<>>
             /\ existing_mapping[job].metric_id # "" )
           => RCallsFor(job, "delete_metric") # <<>>
        /\ (\E k \in 1..Len(r_calls) :
               r_calls[k].op = "delete_component" /\ r_calls[k].key = job
               /\ ~r_calls[k].ok)
           => /\ Len(SelectSeq(r_result.errors, LAMBDA e :
                     e = Entry("Delete component", existing_mapping[job].name))) = 1
              /\ job \in DOMAIN reconciled_mapping
              /\ reconciled_mapping[job] = existing_mapping[job]
        /\ job \notin DOMAIN reconciled_mapping
           => \/ \E k \in 1..Len(r_calls) :
                    r_calls[k].op = "delete_component" /\ r_calls[k].key = job
                    /\ r_calls[k].ok
              \/ existing_mapping[job].component_id = ""

\* an orphan whose metric was deleted and whose component delete then failed
C19_Witness ==
    /\ r_pc = "s_done"
    /\ \E job \in Orphans :
          /\ Len(r_calls) >= 4
          /\ \E k \in 1..(Len(r_calls) - 1) :
                /\ r_calls[k].op = "delete_metric" /\ r_calls[k].key = job
                /\ r_calls[k].ok
                /\ r_calls[k + 1].op = "delete_component"
                /\ r_calls[k + 1].key = job /\ ~r_calls[k + 1].ok
          /\ job \in DOMAIN reconciled_mapping

\* C20: a failed delete_metric call of the orphan cleanup leaves a warning in
\* the result of the pass and no error, and the delete_component call of the
\* same orphan (when it holds a component id) follows it.
C20_MetricDeleteFailureIsAWarning ==
    \A k \in 1..Len(r_calls) :
        (r_calls[k].op = "delete_metric" /\ ~r_calls[k].ok) =>
            LET job == r_calls[k].key
            IN /\ \E w \in 1..Len(r_result.warnings) :
                     r_result.warnings[w].name = existing_mapping[job].name
               /\ SelectSeq(r_result.errors, LAMBDA e : e.kind = "Delete metric") = <<>>
               /\ existing_mapping[job].component_id # "" =>
                     \E l \in (k + 1)..Len(r_calls) :
                         /\ r_calls[l].op = "delete_component"
                         /\ r_calls[l].key = job

\* the ids the remote gave to what the running pass created for the job
CreatedIds(job, op) ==
    {r_calls[k].id : k \in {n \in 1..Len(r_calls) :
        r_calls[n].op = op /\ r_calls[n].key = job /\ r_calls[n].ok}}

\* C21: the Mapping of a status-page pass holds, under the endpoint's job, the
\* id of every component and every metric the pass created, and the id of the
\* listed object it adopted, whatever else failed in the pass; and when the
\* pass has returned, the saved document holds exactly the returned Mapping,
\* with or without recorded errors.
C21_PartialProgressIsKeptAndSaved ==
    /\ \A job \in DOMAIN endpoints :
          /\ CreatedIds(job, "create_component") # {} =>
                /\ job \in DOMAIN reconciled_mapping
                /\ CreatedIds(job, "create_component")
                      = {reconciled_mapping[job].component_id}
          /\ CreatedIds(job, "create_metric") # {} =>
                /\ job \in DOMAIN reconciled_mapping
                /\ CreatedIds(job, "create_metric")
                      = {reconciled_mapping[job].metric_id}
    /\ AdoptedIdStored(existing_components, existing_metrics)
    /\ r_pc = "s_done" =>
          /\ "component_mapping" \in DOMAIN statuspage_json
          /\ statuspage_json.component_mapping = reconciled_mapping

\* a pass that recorded an error created a component all the same, and the
\* saved document holds the new id
C21_Witness ==
    /\ r_pc = "s_done"
    /\ r_result.errors # <<>>
    /\ \E job \in DOMAIN endpoints :
          /\ CreatedIds(job, "create_component") # {}
          /\ job \in DOMAIN statuspage_json.component_mapping
          /\ statuspage_json.component_mapping[job].component_id
                \in CreatedIds(job, "create_component")

\* C29: in a status-page pass, no create_metric call is made for an endpoint
\* with the metric flag off, and once the pass that fetched the component
\* inventory has returned, the endpoint's entry (if it is desired) holds an
\* empty metric_id; for an endpoint with the component flag off no
\* create_component or create_metric call is made and its entry, if the
\* Mapping has one, is the one the pass was given.
C29_MetricAndComponentOnlyWhenRequested ==
    \A job \in DOMAIN endpoints :
        /\ ~WantsMetric(job) =>
              /\ RCallsFor(job, "create_metric") = <<>>
              /\ ( /\ r_pc = "s_done"
                   /\ FailedRCalls("list_components") = <<>>
                   /\ job \in Desired
                   /\ job \in DOMAIN reconciled_mapping )
                 => reconciled_mapping[job].metric_id = ""
        /\ job \notin Desired =>
              /\ RCallsFor(job, "create_component") = <<>>
              /\ RCallsFor(job, "create_metric") = <<>>
              /\ job \in DOMAIN reconciled_mapping =>
                    /\ job \in DOMAIN existing_mapping
                    /\ reconciled_mapping[job] = existing_mapping[job]

\* severity order of the incident impacts
ImpactRank(impact) ==
    CASE impact = "none" -> 0
      [] impact = "minor" -> 1
      [] impact = "major" -> 2
      [] impact = "critical" -> 3

StrictlyWorse(new_impact, old_impact) == ImpactRank(new_impact) > ImpactRank(old_impact)

\* C30: for every unhealthy component with an open incident that the loop has
\* dealt with, the update is flagged as escalated only if the impact derived
\* from the current status is strictly worse than the stored impact; an
\* update whose impact is equal or lower is debounced like any other
\* unescalated update (suppressed inside the quiet period), and no
\* update_incident call for it carries the escalated narrative or has
\* notifications on.
C30_EscalatedOnlyWhenStrictlyWorse ==
    \A i \in Positions :
        (Attempted(i) /\ Mapped(i) /\ Unhealthy(i) /\ HasOpen(i)) =>
            /\ ImpactEscalated(NewImpact(i), OldImpact(i))
                  => StrictlyWorse(DerivedImpact(i), OldImpact(i))
            /\ ~StrictlyWorse(DerivedImpact(i), OldImpact(i)) =>
                  /\ ( /\ quiet_period_minutes > 0
                       /\ LastUpdateKnown(i)
                       /\ Elapsed(i) < quiet_period_minutes )
                     => Len(EntriesOf(result.suppressed, i)) = 1
                  /\ \A k \in 1..Len(calls) :
                        (calls[k].by = i /\ calls[k].op = "update_incident") =>
                            /\ calls[k].body.template # "update:escalated"
                            /\ ~calls[k].notify

----------------------------------------------------------------------------
(* monitoring/status_engine.py: the classifier *)

MaxLevel == 2       \* cutoffs range over 1..MaxLevel, measurements over 0..MaxLevel + 1

\* Optional[float]: None is the empty list, a value v is <<v>>
None == <<>>
Some(v) == <<v>>

\* worst first
STATUS_SEVERITY == <<"major_outage", "degraded_performance", "operational">>

\* lines 66-70 and 78-82: the first level of STATUS_SEVERITY that is among the
\* statuses, operational when none is
FirstLevelIn(statuses) ==
    LET hits == {k \in 1..Len(STATUS_SEVERITY) : STATUS_SEVERITY[k] \in statuses}
    IN IF hits = {} THEN "operational"
       ELSE STATUS_SEVERITY[CHOOSE k \in hits : \A m \in hits : k <= m]

determine_component_status_when_both_missing(reachability, latency, thresholds) ==
    IF reachability = None /\ latency = None THEN "major_outage"
    ELSE IF reachability = None \/ latency = None THEN "degraded_performance"
    ELSE "operational"

determine_component_status_exclusive(reachability, latency, thresholds) ==
    IF reachability = None \/ latency = None THEN "major_outage"
    ELSE LET reach_status ==
                 IF reachability[1] > thresholds.reachability_operational
                 THEN "operational"
                 ELSE IF reachability[1] > thresholds.reachability_degraded
                 THEN "degraded_performance"
                 ELSE "major_outage"
             lat_status ==
                 IF latency[1] <= thresholds.latency_operational_ms
                 THEN "operational"
                 ELSE IF latency[1] <= thresholds.latency_degraded_ms
                 THEN "degraded_performance"
                 ELSE "major_outage"
         IN FirstLevelIn({reach_status, lat_status})

determine_component_status_latency_reversed(reachability, latency, thresholds) ==
    IF reachability = None \/ latency = None THEN "major_outage"
    ELSE LET reach_status ==
                 IF reachability[1] >= thresholds.reachability_operational
                 THEN "operational"
                 ELSE IF reachability[1] >= thresholds.reachability_degraded
                 THEN "degraded_performance"
                 ELSE "major_outage"
             lat_status ==
                 IF latency[1] >= thresholds.latency_operational_ms
                 THEN "operational"
                 ELSE IF latency[1] >= thresholds.latency_degraded_ms
                 THEN "degraded_performance"
                 ELSE "major_outage"
         IN FirstLevelIn({reach_status, lat_status})

\* lines 34-70
determine_component_status(reachability, latency, thresholds) ==
    IF reachability = None \/ latency = None THEN "major_outage"
    ELSE LET reach_status ==
                 IF reachability[1] >= thresholds.reachability_operational
                 THEN "operational"
                 ELSE IF reachability[1] >= thresholds.reachability_degraded
                 THEN "degraded_performance"
                 ELSE "major_outage"
             lat_status ==
                 IF latency[1] <= thresholds.latency_operational_ms
                 THEN "operational"
                 ELSE IF latency[1] <= thresholds.latency_degraded_ms
                 THEN "degraded_performance"
                 ELSE "major_outage"
         IN FirstLevelIn({reach_status, lat_status})

determine_overall_status_of_last(component_statuses) ==
    IF component_statuses = <<>> THEN "operational"
    ELSE component_statuses[Len(component_statuses)]

\* lines 73-82
determine_overall_status(component_statuses) ==
    IF component_statuses = <<>> THEN "operational"
    ELSE FirstLevelIn({component_statuses[k] : k \in 1..Len(component_statuses)})

----------------------------------------------------------------------------
(* build_status_report on any thresholds and any list of measurements *)

Cutoffs == 1..MaxLevel
Measurements == {None} \cup {Some(v) : v \in 0..(MaxLevel + 1)}

ThresholdsDomain ==
    [reachability_operational : Cutoffs, reachability_degraded : Cutoffs,
     latency_operational_ms : Cutoffs, latency_degraded_ms : Cutoffs]

ClassifierInputs == [reachability : Measurements, latency : Measurements]

\* no check, one check, two checks
InputLists ==
    {<<>>} \cup {<<a>> : a \in ClassifierInputs}
           \cup {<<a, b>> : a \in ClassifierInputs, b \in ClassifierInputs}

\* whatever the classifier has no hand in
ClassifyRest ==
    <<incident_vars, reconcile_vars, monitor_vars, sync_vars, engine_vars,
      settings_vars>>

\* lines 105-109: the status of the next check is appended
Classify ==
    /\ cl_pc = "classify"
    /\ Len(cl_statuses) < Len(cl_inputs)
    /\ LET next == cl_inputs[Len(cl_statuses) + 1]
       IN cl_statuses' =
             Append(cl_statuses,
                    determine_component_status(next.reachability, next.latency,
                                               cl_thresholds))
    /\ UNCHANGED <<cl_pc, cl_thresholds, cl_inputs, cl_overall, ClassifyRest>>

\* lines 120-124: the overall status of the report
Aggregate ==
    /\ cl_pc = "classify"
    /\ Len(cl_statuses) = Len(cl_inputs)
    /\ cl_overall' = determine_overall_status(cl_statuses)
    /\ cl_pc' = "done"
    /\ UNCHANGED <<cl_thresholds, cl_inputs, cl_statuses, ClassifyRest>>

InitClassify ==
    /\ IncidentsIdle
    /\ ReconcileIdle
    /\ MonitorIdle
    /\ EngineIdle
    /\ SettingsIdle
    /\ SyncIdle
    /\ cl_pc = "classify"
    /\ cl_thresholds \in ThresholdsDomain
    /\ cl_inputs \in InputLists
    /\ cl_statuses = <<>>
    /\ cl_overall = ""

NextClassify ==
    \/ Classify
    \/ Aggregate

SpecClassify == InitClassify /\ [][NextClassify]_vars

----------------------------------------------------------------------------
(* Properties of the classifier *)

\* severity of a status: the higher the worse
Severity(status) ==
    CASE status = "operational" -> 0
      [] status = "degraded_performance" -> 1
      [] status = "major_outage" -> 2

Classified == 1..Len(cl_statuses)

BothPresent(k) == cl_inputs[k].reachability # None /\ cl_inputs[k].latency # None

\* C22: every classified input whose reachability or latency (or both) is
\* absent has the status major_outage, whatever the other value and the
\* thresholds.
C22_AbsentInputIsMajorOutage ==
    \A k \in Classified :
        (cl_inputs[k].reachability = None \/ cl_inputs[k].latency = None)
            => cl_statuses[k] = "major_outage"

\* the three cases in one run: reachability alone absent beside the best
\* latency, latency alone absent beside the best reachability
C22_Witness ==
    /\ Len(cl_statuses) = 2
    /\ cl_inputs[1] = [reachability |-> None, latency |-> Some(0)]
    /\ cl_inputs[2] = [reachability |-> Some(MaxLevel + 1), latency |-> None]
    /\ cl_statuses = <<"major_outage", "major_outage">>

\* the two independent tiers of C23
ReachabilityTier(r, t) ==
    IF r >= t.reachability_operational THEN 0
    ELSE IF r >= t.reachability_degraded THEN 1 ELSE 2

LatencyTier(l, t) ==
    IF l <= t.latency_operational_ms THEN 0
    ELSE IF l <= t.latency_degraded_ms THEN 1 ELSE 2

Worse(a, b) == IF a >= b THEN a ELSE b

\* C23: every classified input with both values present has the worse of its
\* reachability tier (>= operational cutoff: operational, >= degraded cutoff:
\* degraded, else outage) and its latency tier (<= operational cutoff:
\* operational, <= degraded cutoff: degraded, else outage).
C23_WorseOfTwoInclusiveTiers ==
    \A k \in Classified :
        BothPresent(k) =>
            Severity(cl_statuses[k]) =
                Worse(ReachabilityTier(cl_inputs[k].reachability[1], cl_thresholds),
                      LatencyTier(cl_inputs[k].latency[1], cl_thresholds))

\* reachability exactly at the operational cutoff is operational and one unit
\* below is degraded, the latency being exactly at its operational cutoff
C23_Witness ==
    /\ Len(cl_statuses) = 2
    /\ cl_thresholds.reachability_degraded < cl_thresholds.reachability_operational
    /\ cl_thresholds.latency_operational_ms < cl_thresholds.latency_degraded_ms
    /\ BothPresent(1) /\ BothPresent(2)
    /\ cl_inputs[1].reachability[1] = cl_thresholds.reachability_operational
    /\ cl_inputs[2].reachability[1] = cl_thresholds.reachability_operational - 1
    /\ cl_inputs[1].latency[1] = cl_thresholds.latency_operational_ms
    /\ cl_inputs[2].latency[1] = cl_thresholds.latency_operational_ms
    /\ cl_statuses = <<"operational", "degraded_performance">>

\* input l is input k with a higher reachability only, or a lower latency only
Improves(l, k) ==
    /\ BothPresent(k) /\ BothPresent(l)
    /\ \/ /\ cl_inputs[l].reachability[1] > cl_inputs[k].reachability[1]
          /\ cl_inputs[l].latency = cl_inputs[k].latency
       \/ /\ cl_inputs[l].latency[1] < cl_inputs[k].latency[1]
          /\ cl_inputs[l].reachability = cl_inputs[k].reachability

\* C24: of two classified inputs of which one improves on the other in
\* reachability alone or in latency alone, the improved one never has the
\* worse status, for any thresholds (ordered or not).
C24_Monotonic ==
    \A k, l \in Classified :
        Improves(l, k) => Severity(cl_statuses[l]) <= Severity(cl_statuses[k])

\* a lower latency alone moved the status from major_outage to operational
C24_Witness ==
    /\ Len(cl_statuses) = 2
    /\ Improves(2, 1)
    /\ cl_inputs[2].latency[1] < cl_inputs[1].latency[1]
    /\ cl_statuses = <<"major_outage", "operational">>

\* C25: the overall status of a built report is operational for no component,
\* major_outage when any component is major_outage, and otherwise the worst
\* status among the components.
C25_OverallIsWorstOfComponents ==
    cl_pc = "done" =>
        /\ cl_statuses = <<>> => cl_overall = "operational"
        /\ (\E k \in Classified : cl_statuses[k] = "major_outage")
              => cl_overall = "major_outage"
        /\ cl_statuses # <<>> =>
              /\ \E k \in Classified : cl_overall = cl_statuses[k]
              /\ \A k \in Classified : Severity(cl_statuses[k]) <= Severity(cl_overall)

\* a major_outage component followed by an operational one
C25_Witness ==
    /\ cl_pc = "done"
    /\ cl_statuses = <<"major_outage", "operational">>
    /\ cl_overall = "major_outage"

----------------------------------------------------------------------------
(* monitor.py: runs of main, each building a report and storing it *)

MaxRuns == 2        \* monitor runs in a behaviour

\* monitoring/config.py, lines 32-35 and 109-114: the thresholds of a
\* settings document that names none
DefaultThresholds ==
    [reachability_operational |-> 95, reachability_degraded |-> 75,
     latency_operational_ms |-> 200, latency_degraded_ms |-> 1000]

\* reconcile.py, lines 47-55: a check of config/checks.json; the thresholds
\* key is the empty dict for a check that has none
Check(name, job_label, overrides) ==
    [name |-> name, job_label |-> job_label, thresholds |-> overrides]

\* the override an endpoint may declare: reachability must reach 99
StricterReachability == [reachability_operational |-> 99]

CheckOverrides == {EmptyDict, StricterReachability}

\* config.checks: none, one check, two checks of different names, two checks
\* of one name (nothing validates the names)
CheckLists ==
    {<<>>}
    \cup {<<Check("API", "api", o)>> : o \in CheckOverrides}
    \cup {<<Check("API", "api", o), Check(n, "web", EmptyDict)>> :
             o \in CheckOverrides, n \in {"Web", "API"}}

\* what fetch_metrics returns (whole numbers, which round(x, 2) leaves as
\* they are): two operational readings, the two cutoffs met exactly, a degraded
\* reachability, a latency beyond the degraded cutoff, a missing reachability
FetchResults ==
    {[reachability |-> Some(100), latency |-> Some(100)],
     [reachability |-> Some(96), latency |-> Some(150)],
     [reachability |-> Some(95), latency |-> Some(200)],
     [reachability |-> Some(80), latency |-> Some(100)],
     [reachability |-> Some(100), latency |-> Some(2000)],
     [reachability |-> None, latency |-> Some(100)]}

\* monitor.py line 59 and status_engine.py line 107: (None, None)
NoMeasurement == [reachability |-> None, latency |-> None]

\* status_engine.py, lines 85-124; line 108 classifies every check with the
\* thresholds argument, and the thresholds key of the check is not read
build_status_report(checks, metrics, thresholds, now) ==
    LET measured(k) == Get(metrics, checks[k].job_label, NoMeasurement)
        status(k) == determine_component_status(measured(k).reachability,
                                                measured(k).latency, thresholds)
        statuses == [k \in 1..Len(checks) |-> status(k)]
    IN [last_updated |-> now,
        overall_status |-> determine_overall_status(statuses),
        components |->
            [k \in 1..Len(checks) |->
                [name |-> checks[k].name,
                 status |-> status(k),
                 reachability |-> measured(k).reachability,
                 latency_ms |-> measured(k).latency]]]

\* status_engine.py, lines 140-145: a dict comprehension, so the last
\* component of a name gives the name its status
StatusesByName(report) ==
    LET comps == report.components
        names == {comps[k].name : k \in 1..Len(comps)}
        last(n) == CHOOSE k \in 1..Len(comps) :
                       /\ comps[k].name = n
                       /\ \A m \in 1..Len(comps) : comps[m].name = n => m <= k
    IN [n \in names |-> comps[last(n)].status]

\* status_engine.py, lines 127-147; old_report is None or <<report>>
has_status_changed(old_report, new_report) ==
    IF old_report = None THEN TRUE
    ELSE IF old_report[1].overall_status # new_report.overall_status THEN TRUE
    ELSE StatusesByName(old_report[1]) # StatusesByName(new_report)

\* whatever a monitor run has no hand in
MonitorRest ==
    <<incident_vars, reconcile_vars, classify_vars, sync_vars, engine_vars,
      settings_vars>>

\* the check the fetch loop is at (lines 39-41)
FetchAt == Cardinality(DOMAIN m_metrics) + 1

\* monitor.py, lines 32-34: no checks, nothing is fetched, built or stored
NothingToDo ==
    /\ m_pc = "fetch"
    /\ m_checks = <<>>
    /\ m_pc' = "done"
    /\ UNCHANGED <<m_run, m_checks, m_thresholds, m_metrics, m_report,
                   m_existing, m_changed, status_json, MonitorRest>>

\* monitor.py, lines 44-55
FetchMetrics ==
    /\ m_pc = "fetch"
    /\ FetchAt <= Len(m_checks)
    /\ \E fetched \in FetchResults :
          m_metrics' = Put(m_metrics, m_checks[FetchAt].job_label, fetched)
    /\ UNCHANGED <<m_pc, m_run, m_checks, m_thresholds, m_report, m_existing,
                   m_changed, status_json, MonitorRest>>

\* monitor.py, lines 57-59: GrafanaClientError
FetchMetricsFails ==
    /\ m_pc = "fetch"
    /\ FetchAt <= Len(m_checks)
    /\ m_metrics' = Put(m_metrics, m_checks[FetchAt].job_label, NoMeasurement)
    /\ UNCHANGED <<m_pc, m_run, m_checks, m_thresholds, m_report, m_existing,
                   m_changed, status_json, MonitorRest>>

\* monitor.py, lines 61-62
BuildReport ==
    /\ m_pc = "fetch"
    /\ m_checks # <<>>
    /\ FetchAt > Len(m_checks)
    /\ m_report' = <<build_status_report(m_checks, m_metrics, m_thresholds, m_run)>>
    /\ m_pc' = "build"
    /\ UNCHANGED <<m_run, m_checks, m_thresholds, m_metrics, m_existing,
                   m_changed, status_json, MonitorRest>>

\* monitor.py, lines 64-68: the stored report is read and compared; the
\* outcome chooses a log line
CompareWithExisting ==
    /\ m_pc = "build"
    /\ m_existing' = <<status_json>>
    /\ m_changed' = <<has_status_changed(status_json, m_report[1])>>
    /\ m_pc' = "compare"
    /\ UNCHANGED <<m_run, m_checks, m_thresholds, m_metrics, m_report,
                   status_json, MonitorRest>>

\* monitor.py, lines 70-72
save_status ==
    /\ m_pc = "compare"
    /\ status_json' = m_report
    /\ m_pc' = "done"
    /\ UNCHANGED <<m_run, m_checks, m_thresholds, m_metrics, m_report,
                   m_existing, m_changed, MonitorRest>>

\* the next scheduled run: the configuration is loaded again (lines 23-24)
NextMonitorRun ==
    /\ m_pc = "done"
    /\ m_run < MaxRuns
    /\ m_run' = m_run + 1
    /\ m_checks' \in CheckLists
    /\ m_metrics' = EmptyDict
    /\ m_report' = <<>>
    /\ m_existing' = <<>>
    /\ m_changed' = <<>>
    /\ m_pc' = "fetch"
    /\ UNCHANGED <<m_thresholds, status_json, MonitorRest>>

\* the first run: no stored report yet
InitMonitor ==
    /\ IncidentsIdle
    /\ ReconcileIdle
    /\ ClassifyIdle
    /\ SyncIdle
    /\ EngineIdle
    /\ SettingsIdle
    /\ m_pc = "fetch"
    /\ m_run = 1
    /\ m_checks \in CheckLists
    /\ m_thresholds = DefaultThresholds
    /\ m_metrics = EmptyDict
    /\ m_report = <<>>
    /\ m_existing = <<>>
    /\ m_changed = <<>>
    /\ status_json = None

NextMonitor ==
    \/ NothingToDo
    \/ FetchMetrics
    \/ FetchMetricsFails
    \/ BuildReport
    \/ CompareWithExisting
    \/ save_status
    \/ NextMonitorRun

SpecMonitor == InitMonitor /\ [][NextMonitor]_vars

----------------------------------------------------------------------------
(* Properties of a monitor run *)

\* the comparison of lines 64-68 has been made in this run
Compared == m_changed # <<>>

\* the statuses a report gives its components, each with the component's name
NameStatusPairs(report) ==
    {[name |-> report.components[k].name, status |-> report.components[k].status] :
        k \in 1..Len(report.components)}

\* the stored report and the new one differ in the overall status or in the
\* status of a component (no stored report differs from any report)
AStatusDiffers ==
    \/ m_existing[1] = None
    \/ m_existing[1][1].overall_status # m_report[1].overall_status
    \/ NameStatusPairs(m_existing[1][1]) # NameStatusPairs(m_report[1])

\* C26: has_status_changed is true exactly when the overall status or the
\* status of at least one component differs between the stored report and the
\* new one, whatever the numeric metrics are; and whatever it returned, the run
\* ends with the new report stored.
C26_ChangedIffAStatusDiffers ==
    /\ Compared => (m_changed[1] <=> AStatusDiffers)
    /\ (m_pc = "done" /\ Compared) => status_json = m_report

\* the override of check k laid over the global thresholds, field by field
EffectiveThresholds(k) ==
    [f \in DOMAIN m_thresholds |-> Get(m_checks[k].thresholds, f, m_thresholds[f])]

\* C27: every component of the report built by a run has the status the
\* classifier gives its measurements under the check's own thresholds: the
\* overridden fields where the check overrides, the global ones elsewhere.
C27_ClassifiedWithOverrides ==
    m_report # <<>> =>
        \A k \in 1..Len(m_checks) :
            LET measured == Get(m_metrics, m_checks[k].job_label, NoMeasurement)
            IN m_report[1].components[k].status =
                  determine_component_status(measured.reachability,
                                             measured.latency,
                                             EffectiveThresholds(k))

----------------------------------------------------------------------------
(* atlassian_statuspage/sync.py: main, the sync loop followed by
   process_incidents *)

\* whatever the sync loop has no hand in
SyncRest ==
    <<reconcile_vars, classify_vars, monitor_vars, engine_vars, settings_vars>>

\* what reaches process_incidents unchanged: the configuration and the report
SyncFrame ==
    UNCHANGED <<idx, inputs, unresolved, result, calls, SyncRest>>

\* lines 42-62: no API key, no page id, or a document that cannot be loaded
LoadFails ==
    /\ sync_pc = "start"
    /\ sync_pc' = "fatal"
    /\ exit_code' = 1
    /\ UNCHANGED <<pc, sync_idx, sync_updated, sync_failed>>
    /\ SyncFrame

\* lines 42-72: everything is loaded (the mapping is not empty, line 67)
LoadOk ==
    /\ sync_pc = "start"
    /\ component_mapping # <<>>
    /\ sync_pc' = "sync"
    /\ sync_idx' = 1
    /\ sync_updated' = <<>>
    /\ sync_failed' = <<>>
    /\ UNCHANGED <<pc, exit_code>>
    /\ SyncFrame

\* lines 79-83: the status the report has for the entry's display name
ComponentData(i) == status_report[component_mapping[i].name]

\* lines 85-87
SyncSkip ==
    /\ sync_pc = "sync"
    /\ sync_idx <= Len(component_mapping)
    /\ ComponentData(sync_idx) = ABSENT
    /\ sync_idx' = sync_idx + 1
    /\ UNCHANGED <<pc, sync_pc, sync_updated, sync_failed, exit_code>>
    /\ SyncFrame

\* lines 92 (false) and 101-109: no component id, so no status update; the
\* outcome of submit_metric_data is logged and kept nowhere
SyncNoComponent ==
    /\ sync_pc = "sync"
    /\ sync_idx <= Len(component_mapping)
    /\ ComponentData(sync_idx) # ABSENT
    /\ component_mapping[sync_idx].component_id = ""
    /\ sync_idx' = sync_idx + 1
    /\ UNCHANGED <<pc, sync_pc, sync_updated, sync_failed, exit_code>>
    /\ SyncFrame

\* lines 92-99, then 101-109
SyncComponent ==
    /\ sync_pc = "sync"
    /\ sync_idx <= Len(component_mapping)
    /\ ComponentData(sync_idx) # ABSENT
    /\ component_mapping[sync_idx].component_id # ""
    /\ \E ok \in BOOLEAN :
          IF ok
          THEN /\ sync_updated' = Append(sync_updated, component_mapping[sync_idx].name)
               /\ UNCHANGED sync_failed
          ELSE /\ sync_failed' = Append(sync_failed, component_mapping[sync_idx].name)
               /\ UNCHANGED sync_updated
    /\ sync_idx' = sync_idx + 1
    /\ UNCHANGED <<pc, sync_pc, exit_code>>
    /\ SyncFrame

\* lines 121-131: process_incidents is called
RunAutomation ==
    /\ sync_pc = "sync"
    /\ sync_idx > Len(component_mapping)
    /\ auto_incidents
    /\ pc' = "start"
    /\ sync_pc' = "incidents"
    /\ UNCHANGED <<sync_idx, sync_updated, sync_failed, exit_code>>
    /\ SyncFrame

\* lines 156-160
ExitCode == IF sync_failed # <<>> THEN 1 ELSE 0

\* lines 153-160
AutomationDisabled ==
    /\ sync_pc = "sync"
    /\ sync_idx > Len(component_mapping)
    /\ ~auto_incidents
    /\ sync_pc' = "exited"
    /\ exit_code' = ExitCode
    /\ UNCHANGED <<pc, sync_idx, sync_updated, sync_failed>>
    /\ SyncFrame

\* lines 133-160: process_incidents has returned; its errors go to the log
SyncReturn ==
    /\ sync_pc = "incidents"
    /\ pc = "done"
    /\ sync_pc' = "exited"
    /\ exit_code' = ExitCode
    /\ UNCHANGED <<pc, sync_idx, sync_updated, sync_failed>>
    /\ SyncFrame

\* an exception that process_incidents let through ends the interpreter
\* with status 1
SyncCrash ==
    /\ sync_pc = "incidents"
    /\ pc = "crashed"
    /\ sync_pc' = "crashed"
    /\ exit_code' = 1
    /\ UNCHANGED <<pc, sync_idx, sync_updated, sync_failed>>
    /\ SyncFrame

\* lines 115-119: the settings of the document, with postmortems and
\* notifications at their defaults
InitSync ==
    /\ ReconcileIdle
    /\ ClassifyIdle
    /\ MonitorIdle
    /\ EngineIdle
    /\ SettingsIdle
    /\ pc = "not called"
    /\ idx = 0
    /\ component_mapping \in Mappings
    /\ status_report \in Reports
    /\ auto_incidents \in BOOLEAN
    /\ auto_postmortem = TRUE
    /\ notify_subscribers = TRUE
    /\ quiet_period_minutes \in 0..MaxQuiet
    /\ unresolved = <<>>
    /\ result = EmptyResult
    /\ calls = <<>>
    /\ sync_pc = "start"
    /\ sync_idx = 0
    /\ sync_updated = <<>>
    /\ sync_failed = <<>>
    /\ exit_code = 0

NextSync ==
    \/ LoadFails
    \/ LoadOk
    \/ SyncSkip
    \/ SyncNoComponent
    \/ SyncComponent
    \/ RunAutomation
    \/ AutomationDisabled
    \/ FetchFails
    \/ FetchOk
    \/ SkipComponent
    \/ NoAction
    \/ CreateIncident
    \/ SuppressUpdate
    \/ UpdateIncident
    \/ ResolveIncident
    \/ Return
    \/ SyncReturn
    \/ SyncCrash

SpecSync == InitSync /\ [][NextSync]_vars

----------------------------------------------------------------------------
(* Properties of the sync run *)

\* main has ended, by a return or by an exception
SyncEnded == sync_pc \in {"exited", "fatal", "crashed"}

\* a fatal error (lines 42-62) or an isolated one: a component whose update
\* failed, or an entry in the errors of process_incidents
ErrorRecorded ==
    \/ sync_pc = "fatal"
    \/ sync_failed # <<>>
    \/ result.errors # <<>>

\* C28: a sync run that has ended has a nonzero exit indicator exactly when
\* a fatal or an isolated error was recorded in it.
C28_NonzeroExitIffErrorRecorded ==
    SyncEnded => (exit_code # 0 <=> ErrorRecorded)

----------------------------------------------------------------------------
(* Properties of process_incidents: failed resolves, one action per component *)

\* the resolve call of position i was made and failed
ResolveFailed(i) ==
    /\ Len(CallsOf(i, "resolve_incident")) = 1
    /\ ~CallsOf(i, "resolve_incident")[1].ok

ActionCallsOf(i) ==
    SelectSeq(calls, LAMBDA c :
        /\ c.by = i
        /\ c.op \in {"create_incident", "update_incident", "resolve_incident"})

\* the entries the four lists of the result hold for position i
RecordsOf(i) ==
    Len(EntriesOf(result.created, i)) + Len(EntriesOf(result.updated, i))
        + Len(EntriesOf(result.resolved, i)) + Len(EntriesOf(result.suppressed, i))

\* C33: within one run, for every component of the mapping at most one call
\* among create_incident, update_incident and resolve_incident is made, failed
\* calls included, and the component has at most one entry in result.created,
\* result.updated, result.resolved and result.suppressed taken together.
C33_OneActionPerComponent ==
    \A i \in Positions :
        /\ Len(ActionCallsOf(i)) <= 1
        /\ RecordsOf(i) <= 1

C33_Witness ==
    /\ pc = "done"
    /\ \E i, j \in Positions :
          /\ i # j
          /\ Len(ActionCallsOf(i)) = 1
          /\ ~ActionCallsOf(i)[1].ok
          /\ RecordsOf(i) = 0
          /\ Len(ActionCallsOf(j)) = 1
          /\ RecordsOf(j) = 1

\* the incident position i finds open was resolved by an earlier iteration
ResolvedBefore(i) ==
    \E k \in 1..Len(calls) :
        /\ calls[k].op = "resolve_incident"
        /\ calls[k].ok
        /\ calls[k].by < i
        /\ calls[k].incident_id = unresolved[OpenIncident(i)].id

\* the iteration of position i reached the update_incident call of lines
\* 299-307: the client method was entered, or the call raised and the run died
UpdateAttempted(i) ==
    \/ CallsOf(i, "update_incident") # <<>>
    \/ pc = "crashed" /\ idx = i

----------------------------------------------------------------------------
(* process_incidents run again and again: each run fetches the unresolved
   incidents of the page, and what its calls changed is there for the next *)

MaxEngineRuns == 3      \* runs in a behaviour whose statuses may change

\* an update of an incident, made at minute t
Stamp(t) == [created_at |-> [kind |-> "ts", t |-> t]]

\* an incident of the page; `for` is the component the engine created it for
RemoteIncident(id, impact, components, t, by_engine, for) ==
    [id |-> id, impact |-> impact, components |-> components,
     incident_updates |-> [key |-> TRUE, list |-> <<Stamp(t)>>],
     resolved |-> FALSE, by_engine |-> by_engine, for |-> for]

\* an incident somebody opened by hand at minute 0
Manual(id, components) == RemoteIncident(id, "minor", components, 0, FALSE, "")

\* the page at the first run: no incident, one for API, one for API and Web,
\* one for each, two for Web
RemoteAtStart ==
    { <<>>,
      << Manual("inc1", {"c1"}) >>,
      << Manual("inc1", {"c1", "c2"}) >>,
      << Manual("inc1", {"c1"}), Manual("inc2", {"c2"}) >>,
      << Manual("inc1", {"c2"}), Manual("inc2", {"c2"}) >> }

\* ids the page gives to new incidents, by the number of incidents it holds
IncidentIds == <<"inc1", "inc2", "inc3", "inc4", "inc5", "inc6", "inc7", "inc8">>

\* the statuses the monitor reports
MonitorStatuses == {"operational", "degraded_performance", "major_outage"}

\* GET incidents/unresolved (client.py lines 185-194)
list_unresolved_incidents == SelectSeq(e_remote, LAMBDA inc : ~inc.resolved)

\* outcomes of a remote call that was entered
Outcomes == IF e_reliable THEN {TRUE} ELSE BOOLEAN

\* position in e_remote of the incident of that id
RemoteIndex(id) == CHOOSE k \in 1..Len(e_remote) : e_remote[k].id = id

\* lines 273-287 at the time of the run
SuppressesNow(i) ==
    /\ ~ImpactEscalated(NewImpact(i), OldImpact(i))
    /\ quiet_period_minutes > 0
    /\ LET last_update_time == get_last_update_time(unresolved[OpenIncident(i)])
       IN /\ last_update_time.some
          /\ WithinQuietPeriod(e_clock - last_update_time.t, quiet_period_minutes)

\* what a run leaves alone: the configuration, the report and the clock
RunFrame ==
    UNCHANGED <<component_mapping, status_report, auto_incidents,
                auto_postmortem, notify_subscribers, quiet_period_minutes,
                calls, e_run, e_clock, e_reliable, e_prev,
                reconcile_vars, classify_vars, monitor_vars, sync_vars,
                settings_vars>>

\* lines 206-211
RunFetchFails ==
    /\ pc = "start"
    /\ ~e_reliable
    /\ result' = Add(result, "errors", Error("fetch_unresolved", ""))
    /\ pc' = "done"
    /\ UNCHANGED <<idx, unresolved, e_remote>>
    /\ RunFrame

\* lines 206-217
RunFetch ==
    /\ pc = "start"
    /\ unresolved' = list_unresolved_incidents
    /\ pc' = "loop"
    /\ idx' = 1
    /\ UNCHANGED <<result, e_remote>>
    /\ RunFrame

\* lines 223-229, and lines 236-388 when no branch applies
RunSkip ==
    /\ InLoop
    /\ \/ ~HasData(idx)
       \/ IsHealthy(idx) /\ OpenIncident(idx) = 0
    /\ idx' = idx + 1
    /\ UNCHANGED <<pc, unresolved, result, e_remote>>
    /\ RunFrame

\* lines 238-265: the page opens the incident that was sent
RunCreate ==
    /\ InLoop
    /\ HasData(idx)
    /\ ~IsHealthy(idx)
    /\ OpenIncident(idx) = 0
    /\ Len(e_remote) < Len(IncidentIds)
    /\ \E ok \in Outcomes :
          IF ok
          THEN /\ e_remote' =
                     << RemoteIncident(IncidentIds[Len(e_remote) + 1],
                                       NewImpact(idx), {Cid(idx)}, e_clock, TRUE,
                                       Name(idx)) >> \o e_remote
               /\ result' = Add(result, "created",
                                [component |-> Name(idx),
                                 incident_id |-> IncidentIds[Len(e_remote) + 1],
                                 status |-> CurrentStatus(idx)])
          ELSE /\ e_remote' = e_remote
               /\ result' = Add(result, "errors", Error("create", Name(idx)))
    /\ idx' = idx + 1
    /\ UNCHANGED <<pc, unresolved>>
    /\ RunFrame

\* lines 273-287
RunSuppress ==
    /\ InLoop
    /\ HasData(idx)
    /\ ~IsHealthy(idx)
    /\ OpenIncident(idx) # 0
    /\ SuppressesNow(idx)
    /\ result' = Add(result, "suppressed",
                     [component |-> Name(idx),
                      incident_id |-> unresolved[OpenIncident(idx)].id])
    /\ idx' = idx + 1
    /\ UNCHANGED <<pc, unresolved, e_remote>>
    /\ RunFrame

\* lines 289-307: the keywords of the call bind no parameter list of
\* StatuspageClient.update_incident, so the call raises TypeError, nothing is
\* sent and the run dies
RunUpdate ==
    /\ InLoop
    /\ HasData(idx)
    /\ ~IsHealthy(idx)
    /\ OpenIncident(idx) # 0
    /\ ~SuppressesNow(idx)
    /\ ~Binds(update_incident_params, update_keywords)
    /\ pc' = "crashed"
    /\ UNCHANGED <<idx, unresolved, result, e_remote>>
    /\ RunFrame

\* lines 328-351 with auto_postmortem off: the page closes the incident
RunResolve ==
    /\ InLoop
    /\ HasData(idx)
    /\ IsHealthy(idx)
    /\ OpenIncident(idx) # 0
    /\ ~auto_postmortem
    /\ LET incident_id == unresolved[OpenIncident(idx)].id
       IN \E ok \in Outcomes :
             /\ e_remote' =
                   IF ok
                   THEN [e_remote EXCEPT ![RemoteIndex(incident_id)].resolved = TRUE]
                   ELSE e_remote
             /\ result' = resolve_result(result, idx, incident_id, ok, "found", TRUE)
    /\ idx' = idx + 1
    /\ UNCHANGED <<pc, unresolved>>
    /\ RunFrame

\* line 388
RunReturn ==
    /\ pc = "loop"
    /\ idx > Len(component_mapping)
    /\ pc' = "done"
    /\ UNCHANGED <<idx, unresolved, result, e_remote>>
    /\ RunFrame

\* the run made the update call of an escalation for the component
EscalationCalled(name) ==
    /\ pc = "crashed"
    /\ Name(idx) = name
    /\ ImpactEscalated(NewImpact(idx), OldImpact(idx))

\* what the next run is compared with
RunSummary ==
    [name \in DOMAIN status_report |->
        [status |-> status_report[name], escalated |-> EscalationCalled(name)]]

\* the run has ended, by a return or by an exception
RunEnded == pc \in {"done", "crashed"}

\* the next scheduled run, a minute later, on the report the monitor has then
NextRun ==
    /\ RunEnded
    /\ e_run < MaxEngineRuns
    /\ e_run' = e_run + 1
    /\ e_clock' = e_clock + 1
    /\ e_prev' = RunSummary
    /\ status_report' \in [DOMAIN status_report -> MonitorStatuses]
    /\ pc' = "start"
    /\ idx' = 0
    /\ unresolved' = <<>>
    /\ result' = EmptyResult
    /\ UNCHANGED <<component_mapping, auto_incidents, auto_postmortem,
                   notify_subscribers, quiet_period_minutes, calls, e_remote,
                   e_reliable, reconcile_vars, classify_vars, monitor_vars,
                   sync_vars, settings_vars>>

\* the quiet periods of the configuration: none, or two minutes
QuietPeriods == {0, 2}

\* the first run
InitRunsWith(reliable) ==
    /\ ReconcileIdle
    /\ ClassifyIdle
    /\ MonitorIdle
    /\ SyncIdle
    /\ SettingsIdle
    /\ pc = "start"
    /\ idx = 0
    /\ component_mapping =
          << [job |-> "api", name |-> "API", component_id |-> "c1"],
             [job |-> "web", name |-> "Web", component_id |-> "c2"] >>
    /\ status_report \in [{"API", "Web"} -> MonitorStatuses]
    /\ auto_incidents = TRUE
    /\ auto_postmortem = FALSE
    /\ notify_subscribers = TRUE
    /\ quiet_period_minutes \in QuietPeriods
    /\ unresolved = <<>>
    /\ result = EmptyResult
    /\ calls = <<>>
    /\ e_run = 1
    /\ e_clock = 0
    /\ e_remote \in RemoteAtStart
    /\ e_reliable = reliable
    /\ e_prev = <<>>

InitRuns == InitRunsWith(FALSE)

NextRuns ==
    \/ RunFetchFails
    \/ RunFetch
    \/ RunSkip
    \/ RunCreate
    \/ RunSuppress
    \/ RunUpdate
    \/ RunResolve
    \/ RunReturn
    \/ NextRun

SpecRuns == InitRuns /\ [][NextRuns]_vars

----------------------------------------------------------------------------
(* Properties of repeated runs *)

\* the unresolved incidents of the page that the engine created for a component
EngineOpenFor(name) ==
    { k \in 1..Len(e_remote) :
        /\ e_remote[k].by_engine
        /\ ~e_remote[k].resolved
        /\ e_remote[k].for = name }

\* C35: over any sequence of runs, each fetching the unresolved incidents the
\* page has then, with distinct component ids in the mapping, the page never
\* holds two unresolved incidents that the engine created for one component.
C35_OneEngineIncidentPerComponent ==
    \A name \in DOMAIN status_report : Cardinality(EngineOpenFor(name)) <= 1

C35_Witness ==
    \E i \in Positions :
        /\ Attempted(i)
        /\ ~IsHealthy(i)
        /\ \E k \in EngineOpenFor(Name(i)) :
              get_last_update_time(e_remote[k]).t < e_clock
        /\ \E j \in Positions : EngineOpenFor(Name(j)) = {} /\ j # i

----------------------------------------------------------------------------
(* Repeated runs on a report that stays the same, with no failing remote call *)

\* the next scheduled run on the same report; minutes past MaxEngineRuns are
\* not told apart
RepeatRun ==
    /\ RunEnded
    /\ e_clock' = IF e_clock < MaxEngineRuns THEN e_clock + 1 ELSE e_clock
    /\ e_prev' = RunSummary
    /\ pc' = "start"
    /\ idx' = 0
    /\ unresolved' = <<>>
    /\ result' = EmptyResult
    /\ UNCHANGED <<component_mapping, status_report, auto_incidents,
                   auto_postmortem, notify_subscribers, quiet_period_minutes,
                   calls, e_run, e_remote, e_reliable, reconcile_vars,
                   classify_vars, monitor_vars, sync_vars, settings_vars>>

InitSteady == InitRunsWith(TRUE)

NextSteady ==
    \/ RunFetch
    \/ RunSkip
    \/ RunCreate
    \/ RunSuppress
    \/ RunUpdate
    \/ RunResolve
    \/ RunReturn
    \/ RepeatRun

\* every run goes on to its end and the schedule starts the next one
SpecSteady == InitSteady /\ [][NextSteady]_vars /\ WF_vars(NextSteady)

\* the unresolved incidents of the page that affect the component at i
AffectedBy(i) ==
    { k \in 1..Len(e_remote) :
        ~e_remote[k].resolved /\ Cid(i) \in e_remote[k].components }

\* C36: when the report stays the same and no remote call fails, for every
\* operational component the repeated runs lead to a page on which no
\* unresolved incident affects it, however many there were at the start.
C36_OperationalComponentsAreCleared ==
    \A i \in 1..2 : IsHealthy(i) ~> (AffectedBy(i) = {})

----------------------------------------------------------------------------
(* The incident settings on their way from the declarative source to
   process_incidents: reconcile main writes the document, sync main reads it *)

\* a dict with the key set to one of the values, or without the key
Setting(key, values) ==
    {EmptyDict} \cup { [k \in {key} |-> v] : v \in values }

\* dict union
Merged(a, b) ==
    [k \in DOMAIN a \cup DOMAIN b |-> IF k \in DOMAIN a THEN a[k] ELSE b[k]]

\* config["incidents"]: every key may be left out
ConfigIncidents ==
    { Merged(Merged(a, b), Merged(c, d)) :
        a \in Setting("auto_create", BOOLEAN),
        b \in Setting("auto_postmortem", BOOLEAN),
        c \in Setting("notify_subscribers", BOOLEAN),
        d \in Setting("quiet_period_minutes", {0, 30}) }

\* whatever the settings have no hand in
SettingsRest == <<classify_vars, monitor_vars, engine_vars>>

\* reconcile.py, lines 385-390: the document is generated and saved
SaveDocument ==
    /\ statuspage_json = <<>>
    /\ statuspage_json' = generate_statuspage_json(EmptyDict)
    /\ UNCHANGED <<incident_vars, sync_vars, settings_vars, SettingsRest,
                   r_pc, pass, endpoints, ALLOW_DELETIONS, remote_checks,
                   existing_by_job, remote_components, remote_metrics,
                   existing_components, existing_metrics, existing_mapping,
                   reconciled_mapping, todo, r_result, r_calls, prior_failure>>

\* sync.py, lines 115-119: the settings process_incidents is called with
LoadSettings ==
    /\ statuspage_json # <<>>
    /\ sync_pc = "idle"
    /\ LET incident_settings == Get(statuspage_json, "incidents", EmptyDict)
       IN /\ auto_incidents' = Get(incident_settings, "auto_create", TRUE)
          /\ auto_postmortem' = Get(incident_settings, "auto_postmortem", TRUE)
          /\ notify_subscribers' = Get(incident_settings, "notify_subscribers", TRUE)
          /\ quiet_period_minutes' = Get(incident_settings, "quiet_period_minutes", 60)
    /\ sync_pc' = "configured"
    /\ UNCHANGED <<pc, idx, component_mapping, status_report, unresolved, result,
                   calls, sync_idx, sync_updated, sync_failed, exit_code,
                   reconcile_vars, settings_vars, SettingsRest>>

InitSettings ==
    /\ IncidentsIdle
    /\ ReconcileIdle
    /\ ClassifyIdle
    /\ MonitorIdle
    /\ SyncIdle
    /\ EngineIdle
    /\ cfg_incidents \in ConfigIncidents

NextSettings ==
    \/ SaveDocument
    \/ LoadSettings

SpecSettings == InitSettings /\ [][NextSettings]_vars

\* C31: the document reconciliation saves has the four incident settings,
\* quiet_period_minutes among them, and the quiet period the sync pass hands
\* to process_incidents is the one of the declarative source.
C31_QuietPeriodReachesTheSyncPass ==
    /\ statuspage_json # <<>> =>
          {"auto_create", "auto_postmortem", "notify_subscribers",
           "quiet_period_minutes"} \subseteq DOMAIN statuspage_json.incidents
    /\ ( sync_pc = "configured"
         /\ "quiet_period_minutes" \in DOMAIN cfg_incidents )
       => quiet_period_minutes = cfg_incidents["quiet_period_minutes"]

C38_ListingFailureKeepsStoredMetricId ==
    FailedRCalls("list_metrics") # <<>> =>
        \A job \in Desired :
            ( /\ job \in DOMAIN existing_mapping
              /\ existing_mapping[job].metric_id # ""
              /\ WantsMetric(job) )
            => /\ RCallsFor(job, "create_metric") = <<>>
               /\ job \in DOMAIN reconciled_mapping
               /\ reconciled_mapping[job].metric_id
                     = existing_mapping[job].metric_id

----------------------------------------------------------------------------
(* reconcile main, run again and again: reconcile_grafana, then
   reconcile_statuspage on the Mapping of the saved document, then the save *)

\* endpoints of config.yaml with the fields both halves read
MainEndpoints_api ==
    { Merged(g, s) :
        g \in {[url |-> ""], [url |-> "https://a"],
                [url |-> "https://a", probes |-> <<1, 2>>]},
        s \in {[name |-> "API"], [name |-> "API", metric |-> FALSE]} }

MainEndpoints_web ==
    { Merged([url |-> "https://w", probes |-> <<1>>], s) :
        s \in StatuspageEndpoints_web }

MainChecks_api ==
    [id : {100}, job : {"api"}, target : {"https://a", "https://old"},
     frequency : {60000}, probes : {<<1, 2>>}]

MainMappingEntries_api ==
    {[name |-> "API", component_id |-> "c1", metric_id |-> "m1"],
     [name |-> "API", component_id |-> "c9", metric_id |-> ""]}

\* dicts with both keys
WithAll(api_values, web_values) ==
    {d \in Dicts(api_values, web_values) : DOMAIN d = {"api", "web"}}

\* main, lines 372-383: reconcile_grafana has returned, the saved document is
\* loaded and reconcile_statuspage is called with its Mapping
MainStatuspageHalf ==
    /\ r_pc = "g_done"
    /\ r_pc' = "s_start"
    /\ existing_mapping' = load_existing_mapping
    /\ reconciled_mapping' = load_existing_mapping
    /\ r_result' = EmptyReconcileResult
    /\ existing_components' = {}
    /\ existing_metrics' = {}
    /\ todo' = {}
    /\ UNCHANGED <<pass, r_calls, remote_components, remote_metrics,
                   prior_failure, statuspage_json, StatuspageRest>>

\* the next scheduled run of main, after a run that ended or died; the run
\* number stops counting at MaxPasses
MainRunAgain ==
    /\ r_pc \in {"s_done", "g_crashed"}
    /\ r_pc' = "g_start"
    /\ pass' = IF pass < MaxPasses THEN pass + 1 ELSE pass
    /\ r_result' = EmptyReconcileResult
    /\ r_calls' = <<>>
    /\ existing_by_job' = EmptyDict
    /\ todo' = {}
    /\ prior_failure' = (prior_failure \/ SomeCallFailed)
    /\ UNCHANGED <<remote_checks, GrafanaRest>>

\* remote calls fail in the first run at most
CallsSucceedInTheEnd ==
    pass > 1 => \A k \in 1..Len(r_calls') : r_calls'[k].ok

InitMain ==
    /\ IncidentsIdle
    /\ ClassifyIdle
    /\ MonitorIdle
    /\ EngineIdle
    /\ SettingsIdle
    /\ SyncIdle
    /\ r_pc = "g_start"
    /\ pass = 1
    /\ endpoints \in Dicts(MainEndpoints_api, MainEndpoints_web) \ {EmptyDict}
    /\ ALLOW_DELETIONS \in {MISSING, "True"}
    /\ remote_checks \in {EmptyDict} \cup WithAll(MainChecks_api, RemoteChecks_web)
    /\ existing_by_job = EmptyDict
    /\ existing_mapping = EmptyDict
    /\ reconciled_mapping = EmptyDict
    /\ statuspage_json \in
          { generate_statuspage_json(m) :
               m \in {EmptyDict}
                     \cup WithAll(MainMappingEntries_api, MappingEntries_web) }
    /\ remote_components \in RemoteComponents(load_existing_mapping)
    /\ remote_metrics \in RemoteMetrics
    /\ existing_components = {}
    /\ existing_metrics = {}
    /\ todo = {}
    /\ r_result = EmptyReconcileResult
    /\ r_calls = <<>>
    /\ prior_failure = FALSE

NextMain ==
    \/ ListChecksFails /\ CallsSucceedInTheEnd
    \/ ListChecksOk
    \/ SkipEndpointWithoutUrl
    \/ CompareRaises
    \/ CheckUpToDate
    \/ UpdateCheck /\ CallsSucceedInTheEnd
    \/ CreateCheck /\ CallsSucceedInTheEnd
    \/ GrafanaOrphans
    \/ SkipCheckDeletion
    \/ DeleteCheck /\ CallsSucceedInTheEnd
    \/ GrafanaReturn
    \/ MainStatuspageHalf
    \/ ListComponentsFails /\ CallsSucceedInTheEnd
    \/ ListComponentsOk
    \/ ListMetricsFails /\ CallsSucceedInTheEnd
    \/ ListMetricsOk
    \/ CreateComponentFails /\ CallsSucceedInTheEnd
    \/ ReconcileEndpoint /\ CallsSucceedInTheEnd
    \/ StatuspageOrphans
    \/ SkipOrphanDeletion
    \/ DeleteOrphanComponentFails /\ CallsSucceedInTheEnd
    \/ DeleteOrphan /\ CallsSucceedInTheEnd
    \/ StatuspageReturn
    \/ MainRunAgain

\* every run goes on to its end and the schedule starts the next one
SpecMain == InitMain /\ [][NextMain]_vars /\ WF_vars(NextMain)

\* the saved Mapping has, for every endpoint with the component flag on, an
\* entry whose component exists remotely and, the metric flag on, whose metric
\* does
MappingConverged ==
    \A job \in Desired :
        /\ job \in DOMAIN load_existing_mapping
        /\ load_existing_mapping[job].component_id
              \in {c.id : c \in remote_components}
        /\ WantsMetric(job) =>
              load_existing_mapping[job].metric_id
                 \in {m.id : m \in remote_metrics}

\* C39: repeated runs of reconcile main on one configuration, with nothing
\* else changing the remote systems and remote calls that all succeed from
\* the second run on, reach a point from which the saved Mapping is converged
\* for good and no run issues a create, update or delete call.
C39_RepeatedRunsConverge ==
    <>[](MappingConverged /\ RCallsOf(MutatingOps) = <<>>)

====
